---- MODULE Spec2Model ----
(***************************************************************************)
(* A model of the reminder scheduling and hydration-state engine of the   *)
(* Hippo bot: src/src/bot/reminder_system.py (ReminderSystem) and          *)
(* src/src/database/models.py (DatabaseManager), with the handlers of     *)
(* src/src/bot/hippo_bot.py (HippoBot) that start and cancel reminders.    *)
(*                                                                         *)
(* Ten specifications share this module:                                   *)
(*   SpecWindow  the pure waking-window test _is_within_waking_hours       *)
(*   SpecLevel   the pure estimator calculate_hydration_level              *)
(*   Spec        the scheduler with one user: job registry, per-job runs   *)
(*               interleaved at their awaits, the store's tables, the      *)
(*               clock, calls that raise, rescheduling                     *)
(*   SpecPair    the scheduler with two users, one job each                *)
(*   SpecRegistry  the registry under /start, /setup, /reset, boot, stop   *)
(*   SpecCancel  one user's jobs firing while the user resets and starts   *)
(*               again, runs resumed fairly                                *)
(*   SpecHours   the waking-hours pickers of /setup                        *)
(*   SpecOutcome one reminder under the tick's sweep, the background       *)
(*               expiry job, the confirmation handler and /reset           *)
(*   SpecQuery   the SELECT of calculate_hydration_level on a drawn table  *)
(*   SpecLive    the scheduler with one user, run on fairly                *)
(* Time is counted in minutes; a time of day is counted in seconds.        *)
(***************************************************************************)
EXTENDS Integers, Sequences, FiniteSets, TLC

VARIABLES
    wh,                \* SpecWindow: one call of _is_within_waking_hours
    hl,                \* SpecLevel, SpecQuery: one call of calculate_hydration_level
    now,               \* the clock: minutes of real time since the run began
    server_offset,     \* minutes the server's local time is ahead of UTC
    users,             \* table users: user_id -> row, or None
    active_reminders,  \* table active_reminders, in rowid order
    hydration_events,  \* table hydration_events, in rowid order
    user_achievements, \* table user_achievements: <<user_id, achievement_code>>
    changes,           \* changes() of the connection: rows the last INSERT,
                       \* UPDATE or DELETE statement changed
    messages,          \* the chat: message_id -> what was sent and its button
    next_uuid,         \* how many uuid4() reminder ids have been drawn
    active_jobs,       \* ReminderSystem.active_jobs: user_id -> job name
    job_queue,         \* the jobs scheduled in the JobQueue (job ids)
    job_data,          \* job id -> [name, user_id] of every job ever created
    booted,            \* start_all_user_reminders has run
    ticks,             \* job id -> the run of _check_and_send_reminder in flight
    faults,            \* how many calls have raised so far
    handlers,          \* where the boot job and the update handler stand
    op                 \* the last call made on the registry, for the properties

dbvars  == <<users, active_reminders, hydration_events, user_achievements, changes>>
regvars == <<active_jobs, job_queue, job_data, booted, handlers, op>>
vars == <<wh, hl, now, server_offset, users, active_reminders, hydration_events,
          user_achievements, changes, messages, next_uuid, active_jobs, job_queue,
          job_data, booted, ticks, faults, handlers, op>>

(***************************************************************************)
(* Times of day.  datetime.time(h, m[, s]) values are compared field by    *)
(* field; seconds since midnight keeps exactly that order.                 *)
(***************************************************************************)
SecondsPerDay == 24 * 3600

time(hour, minute, second) == hour * 3600 + minute * 60 + second

\* pytz.timezone(name): zones the timezone picker stores, with their UTC
\* offset in minutes on a winter day (standard time); a string pytz does not
\* know raises UnknownTimeZoneError.
PytzZones == {"Asia/Singapore", "Asia/Tokyo", "Europe/London", "America/New_York"}

utcoffset(zone) ==
    CASE zone = "Asia/Singapore"   -> 480
      [] zone = "Asia/Tokyo"       -> 540
      [] zone = "Europe/London"    -> 0
      [] zone = "America/New_York" -> -300

\* The zone _is_within_waking_hours ends up with: the stored one, or
\* Asia/Singapore when pytz.timezone raises on it.
user_tz(user_tz_str) ==
    IF user_tz_str \in PytzZones THEN user_tz_str ELSE "Asia/Singapore"

\* now_utc.astimezone(user_tz).time(), now_utc given as seconds of the UTC day.
now_local(now_utc, zone) ==
    (now_utc + utcoffset(zone) * 60 + SecondsPerDay) % SecondsPerDay

\* A faulty variant of _is_within_waking_hours: the overnight branch joins
\* its two comparisons with "and".
is_within_waking_hours_overnight_and(user_data, now_utc) ==
    LET start_hour == user_data.waking_start_hour
        end_hour   == user_data.waking_end_hour
        local      == now_local(now_utc, user_tz(user_data.timezone))
        start_time == time(start_hour, user_data.waking_start_minute, 0)
        end_time   == time(end_hour, user_data.waking_end_minute, 0)
    IN  IF start_hour = 0 /\ end_hour = 23
        THEN TRUE
        ELSE IF start_time <= end_time
             THEN start_time <= local /\ local <= end_time
             ELSE local >= start_time /\ local <= end_time

\* _is_within_waking_hours with its read of the clock made a parameter.
is_within_waking_hours(user_data, now_utc) ==
    LET start_hour == user_data.waking_start_hour
        end_hour   == user_data.waking_end_hour
        local      == now_local(now_utc, user_tz(user_data.timezone))
        start_time == time(start_hour, user_data.waking_start_minute, 0)
        end_time   == time(end_hour, user_data.waking_end_minute, 0)
    IN  IF start_hour = 0 /\ end_hour = 23
        THEN TRUE
        ELSE IF start_time <= end_time
             THEN start_time <= local /\ local <= end_time
             ELSE local >= start_time \/ local <= end_time

(***************************************************************************)
(* calculate_hydration_level.  recent_events is what the query returns:    *)
(* the user's event types, newest first, at most 6 of them.                *)
(***************************************************************************)
LevelWindow == 6

Min(a, b) == IF a <= b THEN a ELSE b

\* SELECT ... ORDER BY created_at DESC LIMIT 6 over a newest-first list.
limit(newest_first, n) == SubSeq(newest_first, 1, Min(Len(newest_first), n))

\* A faulty variant of the padding: it starts with 'confirmed'.
placeholders_confirmed_first(missing_count) ==
    [k \in 1..missing_count |-> IF (k - 1) % 2 = 0 THEN "confirmed" ELSE "missed"]

\* The placeholders appended to a short history: 'missed' at even positions
\* of the padding (i = 0, 2, ...), 'confirmed' at odd ones.
placeholders(missing_count) ==
    [k \in 1..missing_count |-> IF (k - 1) % 2 = 0 THEN "missed" ELSE "confirmed"]

confirmed_count(event_types) ==
    Cardinality({k \in 1..Len(event_types) : event_types[k] = "confirmed"})

\* A faulty variant of the ladder: the ratio of misses is rated.
level_of_ratio_of_missed(confirmed, total) ==
    IF      100 * (total - confirmed) >= 85 * total THEN 5
    ELSE IF 100 * (total - confirmed) >= 65 * total THEN 4
    ELSE IF 100 * (total - confirmed) >= 50 * total THEN 3
    ELSE IF 100 * (total - confirmed) >= 35 * total THEN 2
    ELSE IF 100 * (total - confirmed) >= 15 * total THEN 1
    ELSE 0

\* A faulty variant of the ladder: the lower bounds are exclusive.
level_of_ratio_exclusive(confirmed, total) ==
    IF      100 * confirmed > 85 * total THEN 5
    ELSE IF 100 * confirmed > 65 * total THEN 4
    ELSE IF 100 * confirmed > 50 * total THEN 3
    ELSE IF 100 * confirmed > 35 * total THEN 2
    ELSE IF 100 * confirmed > 15 * total THEN 1
    ELSE 0

\* A faulty variant of the ladder: the level is the number of confirmations.
level_of_ratio_is_count(confirmed, total) == confirmed

\* The threshold ladder on confirmed_ratio = confirmed / total; the float
\* comparisons ratio >= 0.85 ... are done on integers as 100*c >= 85*t.
level_of_ratio(confirmed, total) ==
    IF      100 * confirmed >= 85 * total THEN 5
    ELSE IF 100 * confirmed >= 65 * total THEN 4
    ELSE IF 100 * confirmed >= 50 * total THEN 3
    ELSE IF 100 * confirmed >= 35 * total THEN 2
    ELSE IF 100 * confirmed >= 15 * total THEN 1
    ELSE 0

\* A faulty variant of calculate_hydration_level: an empty history is
\* padded and rated like a short one.
calculate_hydration_level_pads_empty(newest_first, query_fails) ==
    IF query_fails THEN 2
    ELSE LET recent_events == limit(newest_first, LevelWindow)
             event_types ==
                 IF Len(recent_events) < 6
                 THEN recent_events \o placeholders(6 - Len(recent_events))
                 ELSE recent_events
         IN  level_of_ratio(confirmed_count(event_types), Len(event_types))

\* query_fails: the SELECT raised; the except branch returns 2.
calculate_hydration_level(newest_first, query_fails) ==
    IF query_fails THEN 2
    ELSE LET recent_events == limit(newest_first, LevelWindow)
         IN  IF Len(recent_events) = 0 THEN 2
             ELSE LET event_types ==
                          IF Len(recent_events) < 6
                          THEN recent_events \o placeholders(6 - Len(recent_events))
                          ELSE recent_events
                  IN  level_of_ratio(confirmed_count(event_types), Len(event_types))

(***************************************************************************)
(* The scheduler's world.                                                  *)
(***************************************************************************)
UserIds == {1, 2}

MaxTime      == 16   \* the clock stops once it has reached this minute
MaxReminders == 2    \* reminder ids uuid4() hands out during the run
MaxFaults    == 1    \* calls to the store or to Telegram that may raise

\* The jobs run_repeating creates during the run.
JobIds == {1, 2}
MaxJobs == Cardinality(JobIds)

\* Python's None where a row is expected.
None == [none |-> TRUE]

\* The shortest interval above one minute the interval picker offers.
QuarterHour == 15

\* The run begins at 13:44:00 UTC, 21:44 in Singapore: a window closing at
\* 22:00 Singapore time is open until minute 16 of the clock, and one that
\* opens at 22:00 opens in minute 16.
RunStartsAt == time(13, 44, 0)

\* datetime.now(pytz.UTC) as seconds of the UTC day.
now_utc_of(clock) == (RunStartsAt + clock * 60) % SecondsPerDay

\* The windows the users of a run have stored.
Regular == [waking_start_hour |-> 7, waking_start_minute |-> 0,
            waking_end_hour |-> 22, waking_end_minute |-> 0]
Night == [waking_start_hour |-> 22, waking_start_minute |-> 0,
          waking_end_hour |-> 6, waking_end_minute |-> 0]

user_row(user_id, window, interval) ==
    [user_id |-> user_id, is_active |-> TRUE,
     waking_start_hour |-> window.waking_start_hour,
     waking_start_minute |-> window.waking_start_minute,
     waking_end_hour |-> window.waking_end_hour,
     waking_end_minute |-> window.waking_end_minute,
     reminder_interval_minutes |-> interval,
     timezone |-> "Asia/Singapore"]

\* The server's zone: UTC, or Singapore time (UTC+8).
ServerOffsets == {0, 480}

\* CURRENT_TIMESTAMP: the UTC clock.  datetime.now(): the server's local clock.
CURRENT_TIMESTAMP == now
datetime_now == now + server_offset

ReminderTTL == 30    \* minutes a reminder lives: expires_at = now() + 30 min

job_name(user_id) == <<"reminders_user", user_id>>

\* A run of _check_and_send_reminder: where it stands (pc) and its locals.
\* Kept beside them: whether the job has fired in the current minute
\* (fired), since run_repeating(interval=60) fires a job once a minute; and,
\* for the properties only, whether the job's previous run ended in the
\* except branch of _send_water_reminder (failed), whether a call of this
\* run has raised, and the user's rows and the length of the event table
\* when the sweep's SELECT ran.
IdleTick == [pc |-> "idle", user_id |-> 0, user_data |-> None,
             reminders |-> <<>>, i |-> 0, reminder_id |-> 0,
             hydration_level |-> 0, message_id |-> 0,
             outstanding |-> <<>>, events_before |-> 0, raised |-> FALSE,
             failed |-> FALSE, fired |-> FALSE]

\* What a call may do: return, or (while faults remain) raise.
Returns == IF faults < MaxFaults THEN {TRUE, FALSE} ELSE {TRUE}

count_fault(ok) == IF ok THEN faults ELSE faults + 1

(***************************************************************************)
(* DatabaseManager: each method is one atomic call on the store.           *)
(***************************************************************************)
Reverse(s) == [k \in 1..Len(s) |-> s[Len(s) + 1 - k]]

RECURSIVE SeqMax(_)
SeqMax(s) == IF Len(s) = 1 THEN s[1]
             ELSE LET m == SeqMax(Tail(s)) IN IF s[1] >= m THEN s[1] ELSE m

rows_of(table, user_id) == SelectSeq(table, LAMBDA r : r.user_id = user_id)

\* get_user: the row, or None.
get_user(user_id) == users[user_id]

\* A faulty variant of record_hydration_event: the user's earlier rows are
\* replaced by the new one.
record_hydration_event_replaces(events, user_id, event_type, reminder_id, writer) ==
    Append(SelectSeq(events, LAMBDA e : e.user_id # user_id),
           [user_id |-> user_id, event_type |-> event_type,
            reminder_id |-> reminder_id, created_at |-> CURRENT_TIMESTAMP,
            writer |-> writer])

\* A faulty variant of record_hydration_event: the INSERT is never committed.
record_hydration_event_uncommitted(events, user_id, event_type, reminder_id, writer) ==
    events

\* record_hydration_event: INSERT one row (writer notes which run wrote it).
record_hydration_event(events, user_id, event_type, reminder_id, writer) ==
    Append(events, [user_id |-> user_id, event_type |-> event_type,
                    reminder_id |-> reminder_id, created_at |-> CURRENT_TIMESTAMP,
                    writer |-> writer])

\* A faulty variant of remove_active_reminder: the DELETE is never committed.
remove_active_reminder_uncommitted(table, reminder_id) == table

\* remove_active_reminder: DELETE ... WHERE reminder_id = ?
remove_active_reminder(table, reminder_id) ==
    SelectSeq(table, LAMBDA r : r.reminder_id # reminder_id)

\* create_active_reminder: INSERT one row.
create_active_reminder(table, user_id, reminder_id, message_id, chat_id, expires_at) ==
    Append(table, [user_id |-> user_id, reminder_id |-> reminder_id,
                   message_id |-> message_id, chat_id |-> chat_id,
                   created_at |-> CURRENT_TIMESTAMP, expires_at |-> expires_at])

\* The SELECT of expire_user_active_reminders: every row of the user.
select_active_reminders(user_id) == rows_of(active_reminders, user_id)

\* ORDER BY created_at DESC as SQLite's sorter returns it: the larger
\* created_at first, and rows of equal created_at (CURRENT_TIMESTAMP counts
\* whole seconds) in the order they were written.
order_by_created_at_desc(rows) ==
    LET before(a, b) == \/ rows[a].created_at > rows[b].created_at
                        \/ rows[a].created_at = rows[b].created_at /\ a < b
        place(a) == Cardinality({b \in 1..Len(rows) : before(b, a)}) + 1
    IN  [k \in 1..Len(rows) |-> rows[CHOOSE a \in 1..Len(rows) : place(a) = k]]

\* The event types of a user in the order of calculate_hydration_level's
\* SELECT ... WHERE user_id = ? ORDER BY created_at DESC.
event_types_newest_first(user_id) ==
    LET mine == order_by_created_at_desc(rows_of(hydration_events, user_id))
    IN  [k \in 1..Len(mine) |-> mine[k].event_type]

\* The query of _should_send_reminder: MAX(created_at) over the user's
\* active reminders and hydration events, as <<max>>; <<>> for NULL, when
\* there is neither.
last_reminder(user_id) ==
    LET stamps == [k \in 1..Len(rows_of(active_reminders, user_id)) |->
                       rows_of(active_reminders, user_id)[k].created_at]
                  \o [k \in 1..Len(rows_of(hydration_events, user_id)) |->
                       rows_of(hydration_events, user_id)[k].created_at]
    IN  IF Len(stamps) = 0 THEN <<>> ELSE <<SeqMax(stamps)>>

\* _should_send_reminder once its query has returned.
should_send_reminder(user_id, interval_minutes) ==
    LET result == last_reminder(user_id)
    IN  IF result = <<>> THEN TRUE
        ELSE LET time_since_last == datetime_now - result[1]
             IN  time_since_last >= interval_minutes

(***************************************************************************)
(* ReminderSystem: the registry of per-user jobs.                          *)
(***************************************************************************)
Registry == [active_jobs |-> active_jobs, job_queue |-> job_queue,
             job_data |-> job_data]

without(f, key) == [k \in DOMAIN f \ {key} |-> f[k]]

\* A faulty variant of get_jobs_by_name: no job is found under the name.
get_jobs_by_name_finds_none(reg, name) == {}

\* job_queue.get_jobs_by_name(job_name)
get_jobs_by_name(reg, name) == {j \in reg.job_queue : reg.job_data[j].name = name}

\* A faulty variant of cancel_user_reminders: the registry entry is deleted
\* and the jobs stay in the job queue.
cancel_user_reminders_keeps_jobs(reg, user_id) ==
    IF user_id \in DOMAIN reg.active_jobs
    THEN [reg EXCEPT !.active_jobs = without(@, user_id)]
    ELSE reg

\* A faulty variant of cancel_user_reminders: the jobs are removed from the
\* job queue and the registry entry stays.
cancel_user_reminders_keeps_entry(reg, user_id) ==
    IF user_id \in DOMAIN reg.active_jobs
    THEN [reg EXCEPT
            !.job_queue = @ \ get_jobs_by_name(reg, reg.active_jobs[user_id])]
    ELSE reg

\* cancel_user_reminders: schedule_removal() of every job of that name,
\* then the registry entry is deleted; nothing when the user is not registered.
cancel_user_reminders(reg, user_id) ==
    IF user_id \in DOMAIN reg.active_jobs
    THEN [reg EXCEPT
            !.job_queue = @ \ get_jobs_by_name(reg, reg.active_jobs[user_id]),
            !.active_jobs = without(@, user_id)]
    ELSE reg

\* A faulty variant of schedule_user_reminders: no cancel before
\* run_repeating.
schedule_user_reminders_no_cancel(reg, user_id) ==
    [active_jobs |-> [k \in DOMAIN reg.active_jobs \cup {user_id} |->
                         IF k = user_id THEN job_name(user_id)
                         ELSE reg.active_jobs[k]],
     job_queue   |-> reg.job_queue \cup {Len(reg.job_data) + 1},
     job_data    |-> Append(reg.job_data,
                            [name |-> job_name(user_id), user_id |-> user_id])]

\* schedule_user_reminders: cancel, run_repeating a new job, register it.
schedule_user_reminders(reg, user_id) ==
    LET cancelled == cancel_user_reminders(reg, user_id)
        job       == Len(cancelled.job_data) + 1
    IN  [active_jobs |-> [k \in DOMAIN cancelled.active_jobs \cup {user_id} |->
                             IF k = user_id THEN job_name(user_id)
                             ELSE cancelled.active_jobs[k]],
         job_queue   |-> cancelled.job_queue \cup {job},
         job_data    |-> Append(cancelled.job_data,
                                [name |-> job_name(user_id), user_id |-> user_id])]

\* The loop of start_all_user_reminders over the selected user ids.
RECURSIVE schedule_each(_, _)
schedule_each(reg, ids) ==
    IF ids = {} THEN reg
    ELSE LET first == CHOOSE u \in ids : \A v \in ids : u <= v
         IN  schedule_each(schedule_user_reminders(reg, first), ids \ {first})

\* SELECT user_id FROM users WHERE is_active = 1
active_user_ids == {u \in UserIds : users[u] # None /\ users[u].is_active}

\* The loop of stop_all_reminders over list(self.active_jobs.keys()).
RECURSIVE cancel_each(_, _)
cancel_each(reg, ids) ==
    IF ids = {} THEN reg
    ELSE LET first == CHOOSE u \in ids : \A v \in ids : u <= v
         IN  cancel_each(cancel_user_reminders(reg, first), ids \ {first})

\* A faulty variant of stop_all_reminders: the loop ends after the first key.
stop_all_reminders_first_only(reg) ==
    IF DOMAIN reg.active_jobs = {} THEN reg
    ELSE cancel_user_reminders(reg, CHOOSE u \in DOMAIN reg.active_jobs :
                                        \A v \in DOMAIN reg.active_jobs : u <= v)

\* stop_all_reminders: cancel_user_reminders for every registered user.
stop_all_reminders(reg) == cancel_each(reg, DOMAIN reg.active_jobs)

\* What start_reminders_for_user does to the registry and what it returns,
\* given the row get_user fetched.
start_reminders_for_user_returns(reg, user_data, user_id) ==
    IF user_data # None /\ user_data.is_active
    THEN [registry |-> schedule_user_reminders(reg, user_id), result |-> TRUE]
    ELSE [registry |-> reg, result |-> FALSE]

\* start_reminders_for_user: schedules when the user exists and is active.
start_reminders_for_user(user_id) ==
    /\ Len(job_data) < MaxJobs
    /\ LET reg == start_reminders_for_user_returns(
                      Registry, get_user(user_id), user_id).registry
       IN  /\ active_jobs' = reg.active_jobs
           /\ job_queue' = reg.job_queue
           /\ job_data' = reg.job_data
    /\ UNCHANGED <<booted, wh, hl, now, server_offset, users, active_reminders,
                   hydration_events, messages, next_uuid, ticks, faults,
                   handlers, op, user_achievements, changes>>

\* start_all_user_reminders, run once when the process starts; a SELECT
\* that raises is logged and nothing is scheduled.  Taken in one step where
\* no handler writes the table users; SpecRegistry takes it await by await.
start_all_user_reminders ==
    /\ ~booted
    /\ Len(job_data) + Cardinality(active_user_ids) <= MaxJobs
    /\ booted' = TRUE
    /\ \E ok \in Returns :
         LET reg == IF ok THEN schedule_each(Registry, active_user_ids) ELSE Registry
         IN  /\ active_jobs' = reg.active_jobs
             /\ job_queue' = reg.job_queue
             /\ job_data' = reg.job_data
             /\ faults' = count_fault(ok)
    /\ UNCHANGED <<wh, hl, now, server_offset, users, active_reminders,
                   hydration_events, messages, next_uuid, ticks, handlers, op,
                   user_achievements, changes>>

(***************************************************************************)
(* One run of _check_and_send_reminder, a step per await.                  *)
(***************************************************************************)
\* The run is over: the coroutine returns normally.
return(t, outcome) ==
    [IdleTick EXCEPT !.failed = (outcome = "failed"), !.fired = t.fired]

\* A faulty variant of _check_and_send_reminder: no except clause, the
\* exception leaves the callback.
check_and_send_reminder_reraise(t) == [t EXCEPT !.pc = "raised"]

\* except Exception of _check_and_send_reminder: logs, and returns.
check_and_send_reminder_except(t) == return(t, "error")

\* except Exception of _send_water_reminder: logs, and returns.
send_water_reminder_except(t) == return(t, "failed")

\* Runs in flight that have yet to draw their reminder id.
awaiting_uuid == {j \in JobIds : ticks[j].pc # "idle" /\ ticks[j].reminder_id = 0}

\* The job fires: get_user, the active check and the window check.
check_and_send_reminder(j) ==
    /\ j \in job_queue
    /\ ticks[j].pc = "idle"
    /\ ~ticks[j].fired
    /\ next_uuid + Cardinality(awaiting_uuid) < MaxReminders
    /\ \E ok \in Returns :
         LET user_id == job_data[j].user_id
             t == [IdleTick EXCEPT !.user_id = user_id,
                                   !.failed = ticks[j].failed,
                                   !.fired = TRUE]
             user_data == get_user(user_id)
         IN  /\ faults' = count_fault(ok)
             /\ ticks' = [ticks EXCEPT ![j] =
                   IF ~ok
                   THEN check_and_send_reminder_except([t EXCEPT !.raised = TRUE])
                   ELSE IF user_data = None \/ ~user_data.is_active
                   THEN return(t, "inactive")
                   ELSE IF ~is_within_waking_hours(user_data, now_utc_of(now))
                   THEN return(t, "outside")
                   ELSE [t EXCEPT !.pc = "should_send", !.user_data = user_data]]
    /\ UNCHANGED <<wh, hl, now, server_offset, dbvars, messages, next_uuid, regvars>>

\* A faulty variant of the interval check: the user's outstanding reminders
\* are deleted before the check, also when the run then returns.
check_should_send_after_delete(j) ==
    /\ ticks[j].pc = "should_send"
    /\ \E ok \in Returns :
         LET t == ticks[j]
         IN  /\ faults' = count_fault(ok)
             /\ active_reminders' =
                   SelectSeq(active_reminders, LAMBDA row : row.user_id # t.user_id)
             /\ ticks' = [ticks EXCEPT ![j] =
                   IF ~ok THEN return([t EXCEPT !.raised = TRUE], "not_ready")
                   ELSE IF should_send_reminder(t.user_id,
                               t.user_data.reminder_interval_minutes)
                   THEN [t EXCEPT !.pc = "expire_select"]
                   ELSE return(t, "not_ready")]
    /\ UNCHANGED <<wh, hl, now, server_offset, users, hydration_events, messages,
                   next_uuid, regvars, user_achievements, changes>>

\* await _should_send_reminder: a query that raises makes it return False.
check_should_send(j) ==
    /\ ticks[j].pc = "should_send"
    /\ \E ok \in Returns :
         LET t == ticks[j]
         IN  /\ faults' = count_fault(ok)
             /\ ticks' = [ticks EXCEPT ![j] =
                   IF ~ok THEN return([t EXCEPT !.raised = TRUE], "not_ready")
                   ELSE IF should_send_reminder(t.user_id,
                               t.user_data.reminder_interval_minutes)
                   THEN [t EXCEPT !.pc = "expire_select"]
                   ELSE return(t, "not_ready")]
    /\ UNCHANGED <<wh, hl, now, server_offset, dbvars, messages, next_uuid, regvars>>

\* expire_user_active_reminders, its SELECT: a raise returns (0, []).
expire_select(j) ==
    /\ ticks[j].pc = "expire_select"
    /\ \E ok \in Returns :
         LET t == ticks[j]
             reminders == IF ok THEN select_active_reminders(t.user_id) ELSE <<>>
         IN  /\ faults' = count_fault(ok)
             /\ ticks' = [ticks EXCEPT ![j] =
                   [t EXCEPT !.reminders = reminders, !.i = 1,
                             !.outstanding = rows_of(active_reminders, t.user_id),
                             !.events_before = Len(hydration_events),
                             !.raised = @ \/ ~ok,
                             !.pc = IF Len(reminders) = 0 THEN "level" ELSE "record"]]
    /\ UNCHANGED <<wh, hl, now, server_offset, dbvars, messages, next_uuid, regvars>>

\* The loop body, first half: record_hydration_event(user_id, 'missed', id);
\* it returns False when its INSERT raises.
expire_record(j) ==
    /\ ticks[j].pc = "record"
    /\ \E ok \in Returns :
         LET t == ticks[j]
         IN  /\ faults' = count_fault(ok)
             /\ hydration_events' =
                   IF ok THEN record_hydration_event(hydration_events, t.user_id,
                                  "missed", t.reminders[t.i].reminder_id, j)
                   ELSE hydration_events
             /\ changes' = IF ok THEN 1 ELSE changes
             /\ ticks' = [ticks EXCEPT ![j] =
                   [t EXCEPT !.pc = "remove", !.raised = @ \/ ~ok]]
    /\ UNCHANGED <<wh, hl, now, server_offset, users, active_reminders, messages,
                   next_uuid, regvars, user_achievements>>

\* The loop body, second half: remove_active_reminder(id); it returns False
\* when its DELETE raises.
expire_remove(j) ==
    /\ ticks[j].pc = "remove"
    /\ \E ok \in Returns :
         LET t == ticks[j]
         IN  /\ faults' = count_fault(ok)
             /\ active_reminders' =
                   IF ok THEN remove_active_reminder(active_reminders,
                                  t.reminders[t.i].reminder_id)
                   ELSE active_reminders
             /\ changes' = IF ok THEN Len(active_reminders) - Len(active_reminders')
                          ELSE changes
             /\ ticks' = [ticks EXCEPT ![j] =
                   IF t.i < Len(t.reminders)
                   THEN [t EXCEPT !.pc = "record", !.i = @ + 1, !.raised = @ \/ ~ok]
                   ELSE [t EXCEPT !.pc = "mark", !.i = 1, !.raised = @ \/ ~ok]]
    /\ UNCHANGED <<wh, hl, now, server_offset, users, hydration_events, messages,
                   next_uuid, regvars, user_achievements>>

\* A faulty variant of the loop over expired_messages: an edit that raises
\* is not caught by _mark_reminder_as_expired and ends _send_water_reminder
\* in its except branch.
mark_reminder_as_expired_uncaught(j) ==
    /\ ticks[j].pc = "mark"
    /\ \E bad \in 0..(IF faults < MaxFaults THEN Len(ticks[j].reminders) ELSE 0) :
         LET t == ticks[j]
             edited == {t.reminders[k].message_id : k \in 1..Len(t.reminders) \ {bad}}
         IN  /\ faults' = count_fault(bad = 0)
             /\ messages' = [m \in 1..Len(messages) |->
                               IF m \in edited
                               THEN [messages[m] EXCEPT !.reply_markup = "expired"]
                               ELSE messages[m]]
             /\ ticks' = [ticks EXCEPT ![j] =
                   IF bad # 0
                   THEN send_water_reminder_except([t EXCEPT !.raised = TRUE])
                   ELSE [t EXCEPT !.pc = "level"]]
    /\ UNCHANGED <<wh, hl, now, server_offset, dbvars, next_uuid, regvars>>

\* The loop over expired_messages: _mark_reminder_as_expired replaces the
\* button of each; an edit that raises is logged only (bad is the message
\* whose edit raises, 0 for none).  No other coroutine reads the buttons,
\* so the loop is one step.
mark_reminder_as_expired(j) ==
    /\ ticks[j].pc = "mark"
    /\ \E bad \in 0..(IF faults < MaxFaults THEN Len(ticks[j].reminders) ELSE 0) :
         LET t == ticks[j]
             edited == {t.reminders[k].message_id : k \in 1..Len(t.reminders) \ {bad}}
         IN  /\ faults' = count_fault(bad = 0)
             /\ messages' = [m \in 1..Len(messages) |->
                               IF m \in edited
                               THEN [messages[m] EXCEPT !.reply_markup = "expired"]
                               ELSE messages[m]]
             /\ ticks' = [ticks EXCEPT ![j] =
                   [t EXCEPT !.pc = "level", !.raised = @ \/ bad # 0]]
    /\ UNCHANGED <<wh, hl, now, server_offset, dbvars, next_uuid, regvars>>

\* A faulty variant of the level step: the level is the one of the records
\* that were in the table when the sweep's SELECT ran.
get_hydration_level_before_sweep(j) ==
    /\ ticks[j].pc = "level"
    /\ \E ok \in Returns :
         LET t == ticks[j]
             mine == Reverse(rows_of(SubSeq(hydration_events, 1,
                                            Min(t.events_before, Len(hydration_events))),
                                     t.user_id))
         IN  /\ faults' = count_fault(ok)
             /\ next_uuid' = next_uuid + 1
             /\ ticks' = [ticks EXCEPT ![j] =
                   [t EXCEPT !.pc = "send", !.reminder_id = next_uuid + 1,
                             !.raised = @ \/ ~ok,
                             !.hydration_level = calculate_hydration_level(
                                 [k \in 1..Len(mine) |-> mine[k].event_type], ~ok)]]
    /\ UNCHANGED <<wh, hl, now, server_offset, dbvars, messages, regvars>>

\* uuid4(), then calculate_hydration_level (2 when its query raises).  The
\* read of get_user_hydration_stats that follows changes nothing.
get_hydration_level(j) ==
    /\ ticks[j].pc = "level"
    /\ \E ok \in Returns :
         LET t == ticks[j]
         IN  /\ faults' = count_fault(ok)
             /\ next_uuid' = next_uuid + 1
             /\ ticks' = [ticks EXCEPT ![j] =
                   [t EXCEPT !.pc = "send", !.reminder_id = next_uuid + 1,
                             !.raised = @ \/ ~ok,
                             !.hydration_level = calculate_hydration_level(
                                 event_types_newest_first(t.user_id), ~ok)]]
    /\ UNCHANGED <<wh, hl, now, server_offset, dbvars, messages, regvars>>

\* send_photo / send_message: the reminder is delivered, or the call raises
\* and _send_water_reminder's except ends the run.
send_message(j) ==
    /\ ticks[j].pc = "send"
    /\ \E ok \in Returns :
         LET t == ticks[j]
         IN  /\ faults' = count_fault(ok)
             /\ messages' =
                   IF ok THEN Append(messages,
                                  [chat_id |-> t.user_id, reminder_id |-> t.reminder_id,
                                   hydration_level |-> t.hydration_level,
                                   reply_markup |-> "confirm"])
                   ELSE messages
             /\ ticks' = [ticks EXCEPT ![j] =
                   IF ok THEN [t EXCEPT !.pc = "create", !.message_id = Len(messages) + 1]
                   ELSE send_water_reminder_except([t EXCEPT !.raised = TRUE])]
    /\ UNCHANGED <<wh, hl, now, server_offset, dbvars, next_uuid, regvars>>

\* create_active_reminder(user_id, reminder_id, message_id, user_id,
\* now() + 30 min); it returns False when its INSERT raises.
record_active_reminder(j) ==
    /\ ticks[j].pc = "create"
    /\ \E ok \in Returns :
         LET t == ticks[j]
             expires_at == datetime_now + ReminderTTL
         IN  /\ faults' = count_fault(ok)
             /\ active_reminders' =
                   IF ok THEN create_active_reminder(active_reminders, t.user_id,
                                  t.reminder_id, t.message_id, t.user_id, expires_at)
                   ELSE active_reminders
             /\ changes' = IF ok THEN 1 ELSE changes
             /\ ticks' = [ticks EXCEPT ![j] =
                   return([t EXCEPT !.raised = @ \/ ~ok], "sent")]
    /\ UNCHANGED <<wh, hl, now, server_offset, users, hydration_events, messages,
                   next_uuid, regvars, user_achievements>>

\* Time passes.  The clock is followed through the first two minutes of
\* every quarter of an hour: a minute passes, or the rest of the quarter
\* with no job firing in it.
Advance ==
    /\ now < MaxTime
    /\ now' = IF now % QuarterHour = 0 THEN now + 1 ELSE now + QuarterHour - 1
    /\ ticks' = [j \in JobIds |-> [ticks[j] EXCEPT !.fired = FALSE]]
    /\ UNCHANGED <<wh, hl, server_offset, dbvars, messages, next_uuid, regvars,
                   faults>>

(***************************************************************************)
(* The process from its start: boot schedules the stored users, jobs fire, *)
(* a user finishing setup is rescheduled, minutes pass.                    *)
(***************************************************************************)
\* wh and hl hold a call of a pure function; no call is made in a run.
NoCall == [called |-> FALSE]

\* The background job _process_expired_reminders between two runs: the
\* minute it last fired in (-1: not yet), and the list it works through.
IdleExpiry == [pc |-> "idle", fired_at |-> -1, reminders |-> <<>>, i |-> 1]

\* Neither the boot job, nor an update handler, nor the background expiry
\* job is between two awaits, and the process has not been stopped.
NoHandler == [boot |-> None, update |-> None, expiry |-> IdleExpiry,
              stopped |-> FALSE]

\* What an earlier process may have left behind: a reminder sent to a user
\* a quarter of an hour before this process started, still outstanding.
left_outstanding(user_id) ==
    <<[user_id |-> user_id, reminder_id |-> 0, message_id |-> 1,
       chat_id |-> user_id, created_at |-> -QuarterHour,
       expires_at |-> server_offset - QuarterHour + ReminderTTL]>>

left_messages(user_id) ==
    <<[chat_id |-> user_id, reminder_id |-> 0, hydration_level |-> 2,
       reply_markup |-> "confirm"]>>

\* ReminderSystem.__init__ over a store holding the given user rows and the
\* reminders an earlier process left outstanding, with the messages it sent.
InitRun(rows, outstanding, sent) ==
    /\ now = 0
    /\ server_offset \in ServerOffsets
    /\ users = rows
    /\ active_reminders = outstanding
    /\ hydration_events = <<>>
    /\ user_achievements = {}
    /\ changes = 0
    /\ messages = sent
    /\ next_uuid = 0
    /\ active_jobs = <<>>
    /\ job_queue = {}
    /\ job_data = <<>>
    /\ booted = FALSE
    /\ ticks = [j \in JobIds |-> IdleTick]
    /\ faults = 0
    /\ handlers = NoHandler
    /\ op = NoCall

\* One user, awake until 22:00, reminded every quarter of an hour.
Init ==
    /\ wh = NoCall
    /\ hl = NoCall
    /\ InitRun([u \in UserIds |-> IF u = 1 THEN user_row(1, Regular, QuarterHour)
                                              ELSE None],
               <<>>, <<>>)

Next ==
    \/ start_all_user_reminders
    \/ \E u \in UserIds : start_reminders_for_user(u)
    \/ \E j \in JobIds : check_and_send_reminder(j)
    \/ \E j \in JobIds : check_should_send(j)
    \/ \E j \in JobIds : expire_select(j)
    \/ \E j \in JobIds : expire_record(j)
    \/ \E j \in JobIds : expire_remove(j)
    \/ \E j \in JobIds : mark_reminder_as_expired(j)
    \/ \E j \in JobIds : get_hydration_level(j)
    \/ \E j \in JobIds : send_message(j)
    \/ \E j \in JobIds : record_active_reminder(j)
    \/ Advance

Spec == Init /\ [][Next]_vars

(***************************************************************************)
(* Two users, each with the one job boot gave them: the first awake until *)
(* 22:00, reminded every quarter of an hour and with a reminder            *)
(* outstanding from before; the second awake from 22:00 and reminded every *)
(* minute.                                                                 *)
(***************************************************************************)
InitPair ==
    /\ wh = NoCall
    /\ hl = NoCall
    /\ InitRun([u \in UserIds |-> IF u = 1 THEN user_row(1, Regular, QuarterHour)
                                              ELSE user_row(u, Night, 1)],
               left_outstanding(1), left_messages(1))

NextPair ==
    \/ start_all_user_reminders
    \/ \E j \in JobIds : check_and_send_reminder(j)
    \/ \E j \in JobIds : check_should_send(j)
    \/ \E j \in JobIds : expire_select(j)
    \/ \E j \in JobIds : expire_record(j)
    \/ \E j \in JobIds : expire_remove(j)
    \/ \E j \in JobIds : mark_reminder_as_expired(j)
    \/ \E j \in JobIds : get_hydration_level(j)
    \/ \E j \in JobIds : send_message(j)
    \/ \E j \in JobIds : record_active_reminder(j)
    \/ Advance

SpecPair == InitPair /\ [][NextPair]_vars

(***************************************************************************)
(* The registry and the handlers that use it, await by await: /start      *)
(* stores a profile, the end of /setup starts the user's reminders, a     *)
(* confirmed /reset cancels them and deletes the profile, the boot job    *)
(* starts the reminders of the stored users, stop() cancels them all.     *)
(* Updates are handled one after the other; the boot job is a task of its *)
(* own and runs between the awaits of an update handler.                  *)
(***************************************************************************)
MaxScheduled == 4    \* jobs run_repeating creates in a run

\* The row INSERT OR REPLACE leaves: every setting at its column default.
default_row(user_id) == user_row(user_id, Regular, 60)

\* The rows a store may hold for a user when the process starts: none, a
\* profile, or a profile whose is_active column was set to 0 in the store.
StoredRows(user_id) ==
    {None, default_row(user_id), [default_row(user_id) EXCEPT !.is_active = FALSE]}

InitRegistry ==
    /\ wh = NoCall
    /\ hl = NoCall
    /\ \E rows \in [UserIds -> UNION {StoredRows(u) : u \in UserIds}] :
         /\ \A u \in UserIds : rows[u] \in StoredRows(u)
         /\ InitRun(rows, <<>>, <<>>)
    /\ server_offset = 0

\* What is recorded of a call on the registry.
called(name, user_id, ids, result) ==
    [called |-> TRUE, name |-> name, user_id |-> user_id, ids |-> ids,
     before |-> Registry, result |-> result]

set_registry(reg) ==
    /\ active_jobs' = reg.active_jobs
    /\ job_queue' = reg.job_queue
    /\ job_data' = reg.job_data

\* start_command: create_user replaces the user's row by a default one.
start_command(user_id) ==
    /\ ~handlers.stopped
    /\ handlers.update = None
    /\ users' = [users EXCEPT ![user_id] = default_row(user_id)]
    /\ changes' = 1
    /\ UNCHANGED <<wh, hl, now, server_offset, active_reminders, hydration_events,
                   messages, next_uuid, regvars, ticks, faults,
                   user_achievements>>

\* _complete_setup: nothing for a user without a row; otherwise the summary
\* is shown and start_reminders_for_user is awaited.
complete_setup(user_id) ==
    /\ ~handlers.stopped
    /\ handlers.update = None
    /\ Len(job_data) < MaxScheduled
    /\ IF get_user(user_id) = None
       THEN UNCHANGED <<active_jobs, job_queue, job_data, op>>
       ELSE LET r == start_reminders_for_user_returns(
                         Registry, get_user(user_id), user_id)
            IN  /\ set_registry(r.registry)
                /\ op' = called("start_reminders_for_user", user_id, {}, r.result)
    /\ UNCHANGED <<wh, hl, now, server_offset, dbvars, messages, next_uuid,
                   booted, handlers, ticks, faults>>

\* _handle_reset_confirm up to its first await: the user's reminders are
\* cancelled.
reset_cancel(user_id) ==
    /\ ~handlers.stopped
    /\ handlers.update = None
    /\ set_registry(cancel_user_reminders(Registry, user_id))
    /\ op' = called("cancel_user_reminders", user_id, {}, TRUE)
    /\ handlers' = [handlers EXCEPT
                      !.update = [handler |-> "reset_confirm", user_id |-> user_id]]
    /\ UNCHANGED <<wh, hl, now, server_offset, dbvars, messages, next_uuid,
                   booted, ticks, faults>>

\* delete_user_completely: the user's reminders, events and row are
\* deleted and committed, or an execute raises and all is rolled back.
reset_delete ==
    /\ handlers.update # None
    /\ handlers.update.handler = "reset_confirm"
    /\ \E ok \in Returns :
         LET user_id == handlers.update.user_id
             others(table) == SelectSeq(table, LAMBDA row : row.user_id # user_id)
         IN  /\ users' = IF ok THEN [users EXCEPT ![user_id] = None] ELSE users
             /\ active_reminders' =
                    IF ok THEN others(active_reminders) ELSE active_reminders
             /\ hydration_events' =
                    IF ok THEN others(hydration_events) ELSE hydration_events
             /\ changes' = IF ~ok THEN changes
                          ELSE IF users[user_id] # None THEN 1 ELSE 0
             /\ faults' = count_fault(ok)
    /\ handlers' = [handlers EXCEPT !.update = None]
    /\ UNCHANGED <<wh, hl, now, server_offset, messages, next_uuid, active_jobs,
                   job_queue, job_data, booted, op, ticks, user_achievements>>

\* start_all_user_reminders up to the end of its SELECT; a SELECT that
\* raises is logged and the call is over.
start_all_select ==
    /\ ~handlers.stopped
    /\ ~booted
    /\ handlers.boot = None
    /\ \E ok \in Returns :
         /\ faults' = count_fault(ok)
         /\ IF ok
            THEN /\ handlers' = [handlers EXCEPT !.boot = [ids |-> active_user_ids]]
                 /\ UNCHANGED <<booted, op>>
            ELSE /\ booted' = TRUE
                 /\ op' = called("start_all_user_reminders", 0, {}, FALSE)
                 /\ UNCHANGED handlers
    /\ UNCHANGED <<wh, hl, now, server_offset, dbvars, messages, next_uuid,
                   active_jobs, job_queue, job_data, ticks>>

\* start_all_user_reminders from its SELECT on: the loop over the rows.
start_all_schedule ==
    /\ ~handlers.stopped
    /\ handlers.boot # None
    /\ Len(job_data) + Cardinality(handlers.boot.ids) <= MaxScheduled
    /\ set_registry(schedule_each(Registry, handlers.boot.ids))
    /\ op' = called("start_all_user_reminders", 0, handlers.boot.ids, TRUE)
    /\ booted' = TRUE
    /\ handlers' = [handlers EXCEPT !.boot = None]
    /\ UNCHANGED <<wh, hl, now, server_offset, dbvars, messages, next_uuid,
                   ticks, faults>>

\* stop: stop_all_reminders, once no handler is between two awaits; the
\* process ends.
stop ==
    /\ ~handlers.stopped
    /\ handlers.update = None
    /\ handlers.boot = None
    /\ set_registry(stop_all_reminders(Registry))
    /\ op' = called("stop_all_reminders", 0, DOMAIN active_jobs, TRUE)
    /\ handlers' = [handlers EXCEPT !.stopped = TRUE]
    /\ UNCHANGED <<wh, hl, now, server_offset, dbvars, messages, next_uuid,
                   booted, ticks, faults>>

NextRegistry ==
    \/ \E u \in UserIds : start_command(u)
    \/ \E u \in UserIds : complete_setup(u)
    \/ \E u \in UserIds : reset_cancel(u)
    \/ reset_delete
    \/ start_all_select
    \/ start_all_schedule
    \/ stop

SpecRegistry == InitRegistry /\ [][NextRegistry]_vars

(***************************************************************************)
(* One user whose jobs fire while the user resets and starts again: the    *)
(* end of /setup schedules the user's job, a confirmed /reset cancels it   *)
(* and deletes the profile, /start stores a new one.  A run of             *)
(* _check_and_send_reminder that has begun is resumed whenever the call    *)
(* it awaits returns.  The server keeps UTC and no call raises.            *)
(***************************************************************************)
\* The user who resets and starts again.
ResetUser == CHOOSE u \in UserIds : \A v \in UserIds : u <= v

InitCancel ==
    /\ wh = NoCall
    /\ hl = NoCall
    /\ now = 0
    /\ server_offset = 0
    /\ users = [u \in UserIds |-> IF u = ResetUser
                                  THEN user_row(u, Regular, QuarterHour) ELSE None]
    /\ active_reminders = <<>>
    /\ hydration_events = <<>>
    /\ user_achievements = {}
    /\ changes = 0
    /\ messages = <<>>
    /\ next_uuid = 0
    /\ active_jobs = <<>>
    /\ job_queue = {}
    /\ job_data = <<>>
    /\ booted = FALSE
    /\ ticks = [j \in JobIds |-> IdleTick]
    /\ faults = MaxFaults
    /\ handlers = NoHandler
    /\ op = NoCall

\* A step of the run of job j after its first.
resume(j) ==
    \/ check_should_send(j)
    \/ expire_select(j)
    \/ expire_record(j)
    \/ expire_remove(j)
    \/ mark_reminder_as_expired(j)
    \/ get_hydration_level(j)
    \/ send_message(j)
    \/ record_active_reminder(j)

\* The user finishes /setup, while a job can still be given a run.
setup_again ==
    /\ Len(job_data) < MaxJobs
    /\ complete_setup(ResetUser)

NextCancel ==
    \/ start_command(ResetUser)
    \/ setup_again
    \/ reset_cancel(ResetUser)
    \/ reset_delete
    \/ \E j \in JobIds : check_and_send_reminder(j)
    \/ \E j \in JobIds : resume(j)
    \/ Advance

SpecCancel ==
    /\ InitCancel
    /\ [][NextCancel]_vars
    /\ \A j \in JobIds : WF_vars(resume(j))

(***************************************************************************)
(* _is_within_waking_hours on its own: a stored window, a timezone string  *)
(* and an instant are drawn, and the function is applied to them.          *)
(***************************************************************************)
\* Hours and minutes the setup flow stores (presets and the custom picker).
StartHours   == {0, 7, 22}
EndHours     == {0, 6, 22, 23}
QuarterHours == {0, 30}

\* Stored timezone strings: four zones pytz knows and one it does not.
TimezoneStrings == PytzZones \cup {"Mars/Phobos"}

\* Instants of the UTC day the clock is read at.
Instants == {time(h, m, s) : h \in 0..23, m \in {0, 1, 30, 45, 59}, s \in {0, 30}}

\* The custom picker refuses a window whose start equals its end.
WindowProfiles ==
    {[user_id |-> 1, is_active |-> TRUE,
      waking_start_hour |-> sh, waking_start_minute |-> sm,
      waking_end_hour |-> eh, waking_end_minute |-> em,
      reminder_interval_minutes |-> 60, timezone |-> tz] :
        sh \in StartHours, sm \in QuarterHours, eh \in EndHours,
        em \in QuarterHours, tz \in TimezoneStrings}
    \ {p \in [user_id : {1}, is_active : {TRUE},
              waking_start_hour : StartHours, waking_start_minute : QuarterHours,
              waking_end_hour : EndHours, waking_end_minute : QuarterHours,
              reminder_interval_minutes : {60}, timezone : TimezoneStrings] :
          /\ p.waking_start_hour = p.waking_end_hour
          /\ p.waking_start_minute = p.waking_end_minute}

NoUsers == [u \in UserIds |-> None]

InitWindow ==
    /\ \E user_data \in WindowProfiles, now_utc \in Instants :
         wh = [called |-> FALSE, user_data |-> user_data, now_utc |-> now_utc]
    /\ hl = NoCall
    /\ InitRun(NoUsers, <<>>, <<>>)
    /\ server_offset = 0

\* self._is_within_waking_hours(user_data)
call_is_within_waking_hours ==
    /\ ~wh.called
    /\ wh' = [called |-> TRUE, user_data |-> wh.user_data, now_utc |-> wh.now_utc,
              result |-> is_within_waking_hours(wh.user_data, wh.now_utc)]
    /\ UNCHANGED <<hl, now, server_offset, dbvars, messages, next_uuid, regvars,
                   ticks, faults>>

NextWindow == call_is_within_waking_hours

SpecWindow == InitWindow /\ [][NextWindow]_vars

(***************************************************************************)
(* calculate_hydration_level on its own: an outcome history is drawn, and  *)
(* whether the query raises; the function is applied to them.              *)
(***************************************************************************)
MaxHistory == 7    \* outcome records in a drawn history

EventTypes == {"confirmed", "missed"}

Histories == UNION {[1..n -> EventTypes] : n \in 0..MaxHistory}

InitLevel ==
    /\ wh = NoCall
    /\ \E newest_first \in Histories, query_fails \in BOOLEAN :
         hl = [called |-> FALSE, newest_first |-> newest_first,
               query_fails |-> query_fails]
    /\ InitRun(NoUsers, <<>>, <<>>)
    /\ server_offset = 0

\* await self.database.calculate_hydration_level(user_id)
call_calculate_hydration_level ==
    /\ ~hl.called
    /\ hl' = [called |-> TRUE, newest_first |-> hl.newest_first,
              query_fails |-> hl.query_fails,
              result |-> calculate_hydration_level(hl.newest_first, hl.query_fails)]
    /\ UNCHANGED <<wh, now, server_offset, dbvars, messages, next_uuid, regvars,
                   ticks, faults>>

NextLevel == call_calculate_hydration_level

SpecLevel == InitLevel /\ [][NextLevel]_vars

(***************************************************************************)
(* Properties of _is_within_waking_hours (under SpecWindow).               *)
(***************************************************************************)
\* The call's window bounds and local time of day, computed from its inputs.
CallStart == time(wh.user_data.waking_start_hour, wh.user_data.waking_start_minute, 0)
CallEnd   == time(wh.user_data.waking_end_hour, wh.user_data.waking_end_minute, 0)
CallLocal ==
    (wh.now_utc + SecondsPerDay
       + 60 * (CASE wh.user_data.timezone = "Europe/London" -> 0
                 [] wh.user_data.timezone = "Asia/Tokyo" -> 540
                 [] wh.user_data.timezone = "America/New_York" -> -300
                 [] OTHER -> 480)) % SecondsPerDay

\* The profile is exactly the 24/7 sentinel: start 00:00, end 23:00.
CallIsSentinel ==
    /\ wh.user_data.waking_start_hour = 0 /\ wh.user_data.waking_start_minute = 0
    /\ wh.user_data.waking_end_hour = 23 /\ wh.user_data.waking_end_minute = 0

\* The window test: inclusive between start and end for a same-day window,
\* at or after start or at or before end for an overnight one.
CallWindowTest ==
    IF CallStart <= CallEnd
    THEN CallStart <= CallLocal /\ CallLocal <= CallEnd
    ELSE CallLocal >= CallStart \/ CallLocal <= CallEnd

\* C7: for every same-day window (start <= end) other than the 24/7
\* sentinel, _is_within_waking_hours is true iff start <= local time of day
\* <= end in the user's timezone, both ends included.
C7_SameDayWindow ==
    (wh.called /\ CallStart <= CallEnd /\ ~CallIsSentinel)
        => (wh.result <=> (CallStart <= CallLocal /\ CallLocal <= CallEnd))

\* C8: for every overnight window (start > end), _is_within_waking_hours is
\* true iff local time of day >= start or local time of day <= end.
C8_OvernightWindow ==
    (wh.called /\ CallStart > CallEnd)
        => (wh.result <=> (CallLocal >= CallStart \/ CallLocal <= CallEnd))

\* An overnight window 22:00-06:00 was asked about at 23:30 local time, and
\* the answer was true.
C8_Witness ==
    /\ wh.called
    /\ CallStart = time(22, 0, 0) /\ CallEnd = time(6, 0, 0)
    /\ CallLocal = time(23, 30, 0)
    /\ wh.result

\* C9: _is_within_waking_hours returns true whatever the instant and the
\* timezone string exactly when the profile is the sentinel 00:00 / 23:00;
\* every other profile, start hour 0 and end hour 23 with a non-zero minute
\* included, is decided by the window test.
C9_SentinelOnly ==
    wh.called => (wh.result <=> (CallIsSentinel \/ CallWindowTest))

(***************************************************************************)
(* Properties of calculate_hydration_level (under SpecLevel).              *)
(***************************************************************************)
\* C10: calculate_hydration_level returns an integer in 0..5, for every
\* outcome history and also when the query raises.
C10_LevelInRange == hl.called => hl.result \in 0..5

\* A history longer than the six records the query reads, all confirmed,
\* was rated 5.
C10_Witness ==
    /\ hl.called /\ ~hl.query_fails
    /\ Len(hl.newest_first) > LevelWindow
    /\ \A k \in 1..Len(hl.newest_first) : hl.newest_first[k] = "confirmed"
    /\ hl.result = 5

\* Confirmations among the n newest records of the call's history.
CallConfirmed(n) ==
    Cardinality({k \in 1..n : k <= Len(hl.newest_first)
                              /\ hl.newest_first[k] = "confirmed"})

\* The threshold map on acknowledged / 6, lower bounds included.
ThresholdMap(acknowledged) ==
    CASE 100 * acknowledged >= 85 * 6 -> 5
      [] 100 * acknowledged >= 65 * 6 /\ 100 * acknowledged < 85 * 6 -> 4
      [] 100 * acknowledged >= 50 * 6 /\ 100 * acknowledged < 65 * 6 -> 3
      [] 100 * acknowledged >= 35 * 6 /\ 100 * acknowledged < 50 * 6 -> 2
      [] 100 * acknowledged >= 15 * 6 /\ 100 * acknowledged < 35 * 6 -> 1
      [] OTHER -> 0

\* The call rated a history; its query did not raise.
CallRated == hl.called /\ ~hl.query_fails

\* C11: for every history of six records, replacing one missed outcome by
\* an acknowledged one never decreases the level.
C11_LevelMonotone ==
    (CallRated /\ Len(hl.newest_first) = 6) =>
        \A k \in 1..6 :
            hl.newest_first[k] = "missed" =>
                calculate_hydration_level(
                    [hl.newest_first EXCEPT ![k] = "confirmed"], FALSE) >= hl.result

\* A history of six records was rated, and acknowledging one of its misses
\* rates strictly higher.
C11_Witness ==
    /\ CallRated
    /\ Len(hl.newest_first) = 6
    /\ \E k \in 1..6 :
         /\ hl.newest_first[k] = "missed"
         /\ calculate_hydration_level(
                [hl.newest_first EXCEPT ![k] = "confirmed"], FALSE) > hl.result

C14_EmptyHistory ==
    (CallRated /\ hl.newest_first = <<>>) => hl.result = 2

\* The empty history was rated, the query returning no rows.
C14_Witness ==
    /\ CallRated
    /\ hl.newest_first = <<>>
    /\ hl.result = 2

(***************************************************************************)
(* Properties of the registry (under SpecRegistry).                        *)
(***************************************************************************)
\* The jobs in the job queue that run for the user.
jobs_of(user_id) == {j \in job_queue : job_data[j].user_id = user_id}

\* The user has a profile and it is active.
HasActiveProfile(user_id) == users[user_id] # None /\ users[user_id].is_active

\* The last call on the registry went through schedule_user_reminders for
\* the user.
ScheduledFor(user_id) ==
    /\ op.called
    /\ \/ /\ op.name = "start_reminders_for_user"
          /\ op.user_id = user_id
          /\ op.result
       \/ /\ op.name = "start_all_user_reminders"
          /\ user_id \in op.ids

\* C15: after schedule_user_reminders(u) exactly one recurring timer exists
\* for u, whether or not one was registered before; a timer registered
\* before is removed first.
C15_OneTimerPerUser ==
    \A u \in UserIds :
        ScheduledFor(u) =>
            /\ u \in DOMAIN active_jobs
            /\ Cardinality(jobs_of(u)) = 1
            /\ \A j \in op.before.job_queue :
                   op.before.job_data[j].user_id = u => j \notin job_queue

\* The reminders of a user who had a timer were started again, and the user
\* has one timer, a new one.
C15_Witness ==
    /\ op.called
    /\ op.name = "start_reminders_for_user"
    /\ op.result
    /\ op.user_id \in DOMAIN op.before.active_jobs
    /\ \E j \in op.before.job_queue : op.before.job_data[j].user_id = op.user_id
    /\ Cardinality(jobs_of(op.user_id)) = 1
    /\ jobs_of(op.user_id) \cap op.before.job_queue = {}

\* C16: cancel_user_reminders(u) removes u from the registry and every job
\* registered for u from the job queue, and nothing else; when u is not
\* registered, registry and job queue are unchanged.
C16_CancelFrame ==
    (op.called /\ op.name = "cancel_user_reminders") =>
        IF op.user_id \in DOMAIN op.before.active_jobs
        THEN /\ DOMAIN active_jobs = DOMAIN op.before.active_jobs \ {op.user_id}
             /\ \A u \in DOMAIN active_jobs : active_jobs[u] = op.before.active_jobs[u]
             /\ job_queue = {j \in op.before.job_queue :
                                op.before.job_data[j].user_id # op.user_id}
        ELSE /\ active_jobs = op.before.active_jobs
             /\ job_queue = op.before.job_queue

\* A registered user's reminders were cancelled while another user was
\* registered too: the user's job left the queue, the other's stayed.
C16_Witness ==
    /\ op.called
    /\ op.name = "cancel_user_reminders"
    /\ op.user_id \in DOMAIN op.before.active_jobs
    /\ \E j \in op.before.job_queue :
         op.before.job_data[j].user_id = op.user_id /\ j \notin job_queue
    /\ job_queue # {}

\* C17: after start_all_user_reminders on an empty registry, the users with
\* a registered timer are exactly the users whose profile is active.
C17_StartAllRegistersActive ==
    [][(handlers.boot # None /\ handlers'.boot = None /\ DOMAIN active_jobs = {})
          => DOMAIN active_jobs' =
                 {u \in UserIds : users'[u] # None /\ users'[u].is_active}]_vars

\* C18: after stop_all_reminders the registry is empty and every timer that
\* was registered has left the job queue.
C18_StopAllEmpties ==
    (op.called /\ op.name = "stop_all_reminders") =>
        /\ DOMAIN active_jobs = {}
        /\ \A j \in op.before.job_queue : j \notin job_queue
        /\ \A u \in UserIds : jobs_of(u) = {}

\* Every user had a timer when stop_all_reminders ran, and none is left.
C18_Witness ==
    /\ op.called
    /\ op.name = "stop_all_reminders"
    /\ DOMAIN op.before.active_jobs = UserIds
    /\ Cardinality(op.before.job_queue) = Cardinality(UserIds)
    /\ job_queue = {}

\* C19: a user whose profile is inactive or missing never has a registered
\* timer; start_reminders_for_user returns True exactly for an existing
\* active profile, and after it returned False the user has no timer.
C19_InactiveNeverRegistered ==
    /\ \A u \in UserIds : ~HasActiveProfile(u) => u \notin DOMAIN active_jobs
    /\ (op.called /\ op.name = "start_reminders_for_user" /\ ~op.result)
           => op.user_id \notin DOMAIN active_jobs

(***************************************************************************)
(* Properties of cancelling while jobs fire (under SpecCancel).            *)
(***************************************************************************)
\* C20: after cancel_user_reminders(u) no new run for u begins until u is
\* started again, and a run in flight when the job was removed goes on to
\* its end.
C20_NoTickAfterCancel ==
    /\ [][\A j \in JobIds :
            (ticks[j].pc = "idle" /\ ticks'[j].pc # "idle") =>
                /\ j \in job_queue
                /\ job_data[j].user_id \in DOMAIN active_jobs]_vars
    /\ \A j \in JobIds :
           (ticks[j].pc # "idle" /\ j \notin job_queue) ~> (ticks[j].pc = "idle")

\* The user's reminders were cancelled while a run of the user's job was
\* about to send, and the job has left the queue.
C20_Witness ==
    /\ op.called
    /\ op.name = "cancel_user_reminders"
    /\ op.user_id \notin DOMAIN active_jobs
    /\ \E j \in JobIds :
         /\ j <= Len(job_data)
         /\ job_data[j].user_id = op.user_id
         /\ j \notin job_queue
         /\ ticks[j].pc = "send"

(***************************************************************************)
(* Properties of the tick (under Spec and SpecPair).                       *)
(***************************************************************************)
\* Job j takes the step that leaves pc = from, and no call raises in it.
CleanStepFrom(j, from) ==
    /\ ticks[j].pc = from
    /\ ticks'[j].pc # from
    /\ faults' = faults

\* The reminder ids in a list of ActiveReminder rows.
ids_of(rows) == {rows[k].reminder_id : k \in 1..Len(rows)}

\* The records run j has written since its sweep's SELECT.
written_since_select(j, events) ==
    SelectSeq(SubSeq(events, ticks[j].events_before + 1, Len(events)),
              LAMBDA e : e.writer = j)

\* C1: after a tick that runs to completion and dispatches a reminder, its
\* user has at most one ActiveReminder row.
C1_AtMostOneOutstanding ==
    [][\A j \in JobIds :
         (CleanStepFrom(j, "create") /\ ~ticks[j].raised)
             => Len(rows_of(active_reminders', ticks[j].user_id)) <= 1]_vars

\* C2: the interval check lets a tick proceed iff the user has neither an
\* outstanding reminder nor an outcome record, or at least intervalMinutes
\* have elapsed since the latest creation timestamp among them.
C2_IntervalCheck ==
    [][\A j \in JobIds :
         CleanStepFrom(j, "should_send") =>
             LET u == ticks[j].user_id
                 stamps ==
                     {active_reminders[k].created_at :
                          k \in {n \in 1..Len(active_reminders) :
                                     active_reminders[n].user_id = u}}
                     \cup {hydration_events[k].created_at :
                               k \in {n \in 1..Len(hydration_events) :
                                          hydration_events[n].user_id = u}}
                 elapsed_enough ==
                     \E last \in stamps :
                         /\ \A other \in stamps : other <= last
                         /\ now - last >= users[u].reminder_interval_minutes
             IN  (ticks'[j].pc = "expire_select")
                     <=> (stamps = {} \/ elapsed_enough)]_vars

C5_NextTickRecovers ==
    [][\A j \in JobIds :
         (CleanStepFrom(j, "should_send") /\ ticks[j].failed)
             => ticks'[j].pc = "expire_select"]_vars

\* C6: a call that raises during a tick is caught inside the tick: the
\* callback never raises, the registry and the job queue are as before, and
\* the runs and the rows of other users are untouched.
C6_FailureContained ==
    [][/\ \A j \in JobIds : ticks'[j].pc # "raised"
       /\ faults' # faults =>
            /\ active_jobs' = active_jobs
            /\ job_queue' = job_queue
            /\ job_data' = job_data
            /\ \A j \in JobIds :
                 ticks'[j] # ticks[j] =>
                     /\ \A k \in JobIds \ {j} : ticks'[k] = ticks[k]
                     /\ \A u \in UserIds \ {job_data[j].user_id} :
                          /\ rows_of(active_reminders', u) = rows_of(active_reminders, u)
                          /\ rows_of(hydration_events', u) = rows_of(hydration_events, u)]_vars

\* The first user's run has ended in the except branch of
\* _send_water_reminder; both jobs are still queued and registered, and the
\* second user has since been sent a reminder.
C6_Witness ==
    /\ faults > 0
    /\ ticks[1].failed
    /\ job_queue = JobIds
    /\ DOMAIN active_jobs = UserIds
    /\ Len(rows_of(active_reminders, 2)) = 1

\* The run of job j is past its loop over expired_messages and the edit of
\* one of the swept reminders' messages raised: its button is unchanged.
MarkFailed(j) ==
    /\ ticks[j].pc \in {"level", "send", "create"}
    /\ \E k \in 1..Len(ticks[j].reminders) :
         messages[ticks[j].reminders[k].message_id].reply_markup = "confirm"

\* C21: an edit_message_reply_markup that raises while an expired
\* reminder's message is marked never prevents the missed record, the
\* deletion of the old reminder, or the dispatch of the new reminder in the
\* same run: the step changes no table and the run goes on to draw its id,
\* send and create as a run whose edits succeeded.
C21_MarkFailureContained ==
    [][\A j \in JobIds :
         /\ (ticks[j].pc = "mark" /\ ticks'[j].pc # "mark" /\ faults' = faults + 1)
               => /\ ticks'[j].pc = "level"
                  /\ dbvars' = dbvars
                  /\ ~ticks[j].raised =>
                        \A k \in 1..Len(ticks[j].reminders) :
                            LET id == ticks[j].reminders[k].reminder_id
                            IN  /\ \E e \in 1..Len(hydration_events') :
                                     /\ hydration_events'[e].reminder_id = id
                                     /\ hydration_events'[e].event_type = "missed"
                                /\ \A r \in 1..Len(active_reminders') :
                                     active_reminders'[r].reminder_id # id
         /\ (MarkFailed(j) /\ CleanStepFrom(j, "level"))
               => ticks'[j].pc = "send"
         /\ (MarkFailed(j) /\ CleanStepFrom(j, "send"))
               => /\ ticks'[j].pc = "create"
                  /\ Len(messages') = Len(messages) + 1
                  /\ messages'[Len(messages')].reminder_id = ticks[j].reminder_id
         /\ (MarkFailed(j) /\ CleanStepFrom(j, "create"))
               => \E r \in 1..Len(active_reminders') :
                     /\ active_reminders'[r].reminder_id = ticks[j].reminder_id
                     /\ active_reminders'[r].user_id = ticks[j].user_id]_vars

\* The edit of a swept reminder's message raised, the missed record is
\* written, the old reminder is deleted, and the run has sent the new
\* reminder and is about to store it.
C21_Witness ==
    \E j \in JobIds :
        /\ MarkFailed(j)
        /\ ticks[j].pc = "create"
        /\ \A k \in 1..Len(ticks[j].reminders) :
             /\ \E e \in 1..Len(hydration_events) :
                  /\ hydration_events[e].reminder_id = ticks[j].reminders[k].reminder_id
                  /\ hydration_events[e].event_type = "missed"
             /\ \A r \in 1..Len(active_reminders) :
                  active_reminders[r].reminder_id # ticks[j].reminders[k].reminder_id
        /\ messages[Len(messages)].reminder_id = ticks[j].reminder_id

\* The run of job j ends in this step at the active check or the window
\* check (it began and returned at once), or at the interval check.
Aborts(j) ==
    \/ ticks[j].pc = "idle" /\ ~ticks[j].fired /\ ticks'[j].fired
                            /\ ticks'[j].pc = "idle"
    \/ ticks[j].pc = "should_send" /\ ticks'[j].pc = "idle"

C28_SweepPairedWithDispatch ==
    [][\A j \in JobIds :
         (/\ ticks[j].pc \in {"send", "create"}
          /\ ticks'[j].pc = "idle"
          /\ Len(ticks[j].reminders) > 0)
             => \/ ticks[j].reminder_id \in ids_of(active_reminders')
                \/ /\ rows_of(active_reminders', ticks[j].user_id)
                          = ticks[j].outstanding
                   /\ written_since_select(j, hydration_events') = <<>>]_vars

\* The minutes of real time since the user's latest activity (the newest
\* created_at among the user's ActiveReminders and OutcomeRecords).
RealElapsed(user_id) == now - last_reminder(user_id)[1]

\* C29: whatever the offset between the server's local time and UTC, a call
\* of _should_send_reminder for a user with earlier activity answers true
\* iff at least intervalMinutes of real time have passed since the latest
\* activity.
C29_OffsetIndependent ==
    \A j \in JobIds :
        (ticks[j].pc = "should_send" /\ last_reminder(ticks[j].user_id) # <<>>)
            => (should_send_reminder(ticks[j].user_id,
                                     ticks[j].user_data.reminder_interval_minutes)
                   <=> RealElapsed(ticks[j].user_id)
                           >= ticks[j].user_data.reminder_interval_minutes)

\* C30: consecutive dispatches to a user are at least intervalMinutes apart
\* (the lower half of the claim): when a run of a failure-free process
\* records the reminder it dispatched, every reminder of the user that was
\* outstanding when the run swept - the user's previous dispatch - was
\* created at least intervalMinutes of real time earlier.
C30_DispatchGap ==
    [][\A j \in JobIds :
         (/\ CleanStepFrom(j, "create")
          /\ faults = 0
          /\ ticks[j].reminder_id \in ids_of(active_reminders'))
             => \A k \in 1..Len(ticks[j].outstanding) :
                    now - ticks[j].outstanding[k].created_at
                        >= ticks[j].user_data.reminder_interval_minutes]_vars

(***************************************************************************)
(* The waking-hours pickers of /setup.  One user works through the inline  *)
(* keyboards of the setup message; the keyboard on show decides which      *)
(* callbacks can arrive.  A keyboard is kept as the screen it belongs to   *)
(* and the values its callback_data carry.                                 *)
(***************************************************************************)
\* The hour buttons followed (of the 24 that _setup_start_time and
\* _setup_end_time lay out) and the minute buttons followed (of the four).
PickerHours == {7, 23}
PickerMinutes == {0, 15}

\* The preset buttons of _setup_waking_hours: waking_6_21, waking_7_22,
\* waking_9_24, waking_0_24, as the text after "waking_" split at "_".
Presets == {<<6, 21>>, <<7, 22>>, <<9, 24>>, <<0, 24>>}

keyboard(screen, start_hour, start_minute, end_hour) ==
    [screen |-> screen, start_hour |-> start_hour,
     start_minute |-> start_minute, end_hour |-> end_hour]

\* The main menu setup_command sends.
SetupMenu == keyboard("setup", 0, 0, 0)

\* The keyboard under the user's setup message.
shown == messages[1].reply_markup

\* query.edit_message_text(..., reply_markup=...)
edit_message_text(reply_markup) ==
    messages' = [messages EXCEPT ![1].reply_markup = reply_markup]

InitHours ==
    /\ wh = NoCall
    /\ hl = NoCall
    /\ InitRun([u \in UserIds |-> IF u = ResetUser THEN default_row(u) ELSE None],
               <<>>, <<[chat_id |-> ResetUser, reply_markup |-> SetupMenu]>>)
    /\ server_offset = 0

\* update_user_waking_hours: UPDATE users SET ... WHERE user_id = ?
update_user_waking_hours(table, user_id, start_hour, start_minute, end_hour, end_minute) ==
    IF table[user_id] = None THEN table
    ELSE [table EXCEPT ![user_id].waking_start_hour = start_hour,
                       ![user_id].waking_start_minute = start_minute,
                       ![user_id].waking_end_hour = end_hour,
                       ![user_id].waking_end_minute = end_minute]

\* /setup: a new setup message with the main menu.
setup_command ==
    /\ messages' = <<[chat_id |-> ResetUser, reply_markup |-> SetupMenu]>>
    /\ shown # SetupMenu
    /\ UNCHANGED <<wh, hl, now, server_offset, dbvars, next_uuid, regvars, ticks,
                   faults>>

\* /start on an existing chat: create_user replaces the row by the defaults.
start_again ==
    /\ users[ResetUser] # default_row(ResetUser)
    /\ users' = [users EXCEPT ![ResetUser] = default_row(ResetUser)]
    /\ changes' = 1
    /\ UNCHANGED <<wh, hl, now, server_offset, active_reminders, hydration_events,
                   messages, next_uuid, regvars, ticks, faults,
                   user_achievements>>

\* setup_waking_hours, and custom_hours_cancel: the presets are shown.
setup_waking_hours ==
    /\ shown.screen \in {"setup", "start_hour"}
    /\ edit_message_text(keyboard("waking_hours", 0, 0, 0))
    /\ UNCHANGED <<wh, hl, now, server_offset, dbvars, next_uuid, regvars, ticks,
                   faults>>

\* setup_back, from the presets and from the screen of a stored window.
setup_back ==
    /\ shown.screen \in {"waking_hours", "saved"}
    /\ edit_message_text(SetupMenu)
    /\ UNCHANGED <<wh, hl, now, server_offset, dbvars, next_uuid, regvars, ticks,
                   faults>>

\* What _handle_waking_hours_selection makes of a preset: 0_24 is stored as
\* 0 - 23, any other end of 24 as 0.
preset_hours(selection) ==
    IF selection[1] = 0 /\ selection[2] = 24 THEN <<0, 23>>
    ELSE IF selection[2] = 24 THEN <<selection[1], 0>>
    ELSE selection

\* _handle_waking_hours_selection for a preset button.
handle_waking_hours_selection(selection) ==
    /\ shown.screen = "waking_hours"
    /\ \E ok \in Returns :
         LET hours == preset_hours(selection)
         IN  /\ faults' = count_fault(ok)
             /\ users' = IF ok THEN update_user_waking_hours(users, ResetUser,
                                        hours[1], 0, hours[2], 0)
                         ELSE users
             /\ changes' = IF ~ok THEN changes
                          ELSE IF users[ResetUser] # None THEN 1 ELSE 0
             /\ op' = called("_handle_waking_hours_selection", ResetUser,
                             <<hours[1], 0, hours[2], 0>>, ok)
             /\ edit_message_text(keyboard(IF ok THEN "interval" ELSE "error",
                                           0, 0, 0))
    /\ UNCHANGED <<wh, hl, now, server_offset, active_reminders, hydration_events,
                   next_uuid, active_jobs, job_queue, job_data, booted, handlers,
                   ticks, user_achievements>>

\* waking_custom and custom_hours_start: _setup_start_time shows the hours.
start_custom_hours_setup ==
    /\ shown.screen \in {"waking_hours", "start_minute", "end_hour", "invalid",
                         "failed"}
    /\ edit_message_text(keyboard("start_hour", 0, 0, 0))
    /\ UNCHANGED <<wh, hl, now, server_offset, dbvars, next_uuid, regvars, ticks,
                   faults>>

\* start_hour_H: _setup_start_minute shows the minutes of hour H.
handle_start_hour_selection(hour) ==
    /\ shown.screen = "start_hour"
    /\ edit_message_text(keyboard("start_minute", hour, 0, 0))
    /\ UNCHANGED <<wh, hl, now, server_offset, dbvars, next_uuid, regvars, ticks,
                   faults>>

\* start_time_H_M: _setup_end_time shows the end hours.
handle_start_time_selection(minute) ==
    /\ shown.screen = "start_minute"
    /\ edit_message_text(keyboard("end_hour", shown.start_hour, minute, 0))
    /\ UNCHANGED <<wh, hl, now, server_offset, dbvars, next_uuid, regvars, ticks,
                   faults>>

\* end_hour_H_M_E: _setup_end_minute shows the minutes of hour E; its Back
\* button (end_hour_H_M_back) shows the end hours again.
handle_end_hour_selection(hour) ==
    /\ shown.screen \in {"end_hour", "end_minute"}
    /\ edit_message_text(
           IF shown.screen = "end_minute"
           THEN keyboard("end_hour", shown.start_hour, shown.start_minute, 0)
           ELSE keyboard("end_minute", shown.start_hour, shown.start_minute, hour))
    /\ UNCHANGED <<wh, hl, now, server_offset, dbvars, next_uuid, regvars, ticks,
                   faults>>

\* A faulty variant of _complete_custom_hours_setup: no validation.
complete_custom_hours_setup_unchecked(start_hour, start_minute, end_hour, end_minute) ==
    /\ users' = update_user_waking_hours(users, ResetUser, start_hour,
                    start_minute, end_hour, end_minute)
    /\ changes' = IF users[ResetUser] # None THEN 1 ELSE 0
    /\ faults' = faults
    /\ edit_message_text(keyboard("saved", 0, 0, 0))

\* _complete_custom_hours_setup: equal times are turned away before the
\* store is touched; otherwise the window is stored.
complete_custom_hours_setup(start_hour, start_minute, end_hour, end_minute) ==
    IF start_hour = end_hour /\ start_minute = end_minute
    THEN /\ edit_message_text(keyboard("invalid", 0, 0, 0))
         /\ UNCHANGED <<users, changes, faults>>
    ELSE \E ok \in Returns :
           /\ faults' = count_fault(ok)
           /\ users' = IF ok THEN update_user_waking_hours(users, ResetUser,
                                      start_hour, start_minute, end_hour, end_minute)
                       ELSE users
           /\ changes' = IF ~ok THEN changes
                        ELSE IF users[ResetUser] # None THEN 1 ELSE 0
           /\ edit_message_text(keyboard(IF ok THEN "saved" ELSE "failed", 0, 0, 0))

\* end_time_H_M_E_N: the selection is complete.
handle_end_time_selection(minute) ==
    /\ shown.screen = "end_minute"
    /\ complete_custom_hours_setup(shown.start_hour, shown.start_minute,
                                   shown.end_hour, minute)
    /\ op' = called("_complete_custom_hours_setup", ResetUser,
                    <<shown.start_hour, shown.start_minute, shown.end_hour, minute>>,
                    TRUE)
    /\ UNCHANGED <<wh, hl, now, server_offset, active_reminders, hydration_events,
                   next_uuid, active_jobs, job_queue, job_data, booted, handlers,
                   ticks, user_achievements>>

NextHours ==
    \/ setup_back
    \/ setup_command
    \/ start_again
    \/ setup_waking_hours
    \/ \E selection \in Presets : handle_waking_hours_selection(selection)
    \/ start_custom_hours_setup
    \/ \E hour \in PickerHours : handle_start_hour_selection(hour)
    \/ \E minute \in PickerMinutes : handle_start_time_selection(minute)
    \/ \E hour \in PickerHours : handle_end_hour_selection(hour)
    \/ \E minute \in PickerMinutes : handle_end_time_selection(minute)

SpecHours == InitHours /\ [][NextHours]_vars

(***************************************************************************)
(* Properties of the waking-hours pickers (under SpecHours).               *)
(***************************************************************************)
\* The stored window of a user as <<start hour, start minute, end hour,
\* end minute>>.
stored_window(row) ==
    <<row.waking_start_hour, row.waking_start_minute,
      row.waking_end_hour, row.waking_end_minute>>

\* C25: a custom selection whose end time equals its start time leaves the
\* stored waking window as it was, and no profile ever has a window whose
\* start equals its end.
C25_EqualTimesRejected ==
    /\ [][(/\ op' # op
           /\ op'.name = "_complete_custom_hours_setup"
           /\ op'.ids[1] = op'.ids[3]
           /\ op'.ids[2] = op'.ids[4]) => users' = users]_vars
    /\ [](\A u \in UserIds :
            users[u] # None =>
                ~(/\ users[u].waking_start_hour = users[u].waking_end_hour
                  /\ users[u].waking_start_minute = users[u].waking_end_minute))

\* An equal selection (23:15 - 23:15) has been turned away while the
\* custom window 23:00 - 07:15 was stored.
C25_Witness ==
    /\ op.called
    /\ op.name = "_complete_custom_hours_setup"
    /\ op.ids = <<23, 15, 23, 15>>
    /\ shown.screen = "invalid"
    /\ stored_window(users[ResetUser]) = <<23, 0, 7, 15>>

(***************************************************************************)
(* What becomes of a reminder.  One user, whose store holds a reminder     *)
(* sent by an earlier process the day before and never answered.  The      *)
(* user's job ticks, the background job looks for expired reminders, the   *)
(* user taps the button of a reminder, and the user resets; the           *)
(* coroutines interleave at their awaits.  The run is followed through its *)
(* first two minutes; the server keeps UTC and no call raises.             *)
(***************************************************************************)
MinutesPerDay == SecondsPerDay \div 60

\* Who wrote an OutcomeRecord, where it was not the run of a job: the
\* background expiry job, or the confirmation handler.
ExpiryWriter == MaxJobs + 1
ConfirmWriter == MaxJobs + 2

\* The reminder of the day before: sent a day before this process started.
left_yesterday(user_id) ==
    <<[user_id |-> user_id, reminder_id |-> 0, message_id |-> 1,
       chat_id |-> user_id, created_at |-> -MinutesPerDay,
       expires_at |-> ReminderTTL - MinutesPerDay]>>

InitOutcome ==
    /\ wh = NoCall
    /\ hl = NoCall
    /\ now = 0
    /\ server_offset = 0
    /\ users = [u \in UserIds |-> IF u = ResetUser
                                  THEN user_row(u, Regular, QuarterHour) ELSE None]
    /\ active_reminders = left_yesterday(ResetUser)
    /\ hydration_events = <<>>
    /\ user_achievements = {}
    /\ changes = 0
    /\ messages = left_messages(ResetUser)
    /\ next_uuid = 0
    /\ active_jobs = <<>>
    /\ job_queue = {}
    /\ job_data = <<>>
    /\ booted = FALSE
    /\ ticks = [j \in JobIds |-> IdleTick]
    /\ faults = MaxFaults
    /\ handlers = NoHandler
    /\ op = NoCall

\* The calendar day a clock reading falls on, the day the run began being 0.
date_of(minutes) == (RunStartsAt \div 60 + minutes) \div MinutesPerDay

\* The WHERE of get_expired_reminders: expires_at <= datetime('now').
\* expires_at holds datetime.isoformat() of the server's local time
\* ("2025-01-01T10:00:00.000000") and datetime('now') is UTC with a blank
\* in place of the T; the comparison is one of strings, "T" sorts after
\* " ", and so a row is selected exactly when the date of its expires_at is
\* earlier than the UTC date.
is_expired(reminder) == date_of(reminder.expires_at) < date_of(CURRENT_TIMESTAMP)

\* get_expired_reminders
get_expired_reminders == SelectSeq(active_reminders, is_expired)

\* The background job fires (at most once in a minute of the clock):
\* get_expired_reminders.
process_expired_select ==
    /\ handlers.expiry.pc = "idle"
    /\ handlers.expiry.fired_at # now
    /\ \E ok \in Returns :
         LET expired_reminders == IF ok THEN get_expired_reminders ELSE <<>>
         IN  /\ faults' = count_fault(ok)
             /\ handlers' = [handlers EXCEPT !.expiry =
                   [pc |-> IF Len(expired_reminders) = 0 THEN "idle" ELSE "mark",
                    fired_at |-> now, reminders |-> expired_reminders, i |-> 1]]
    /\ UNCHANGED <<wh, hl, now, server_offset, dbvars, messages, next_uuid,
                   active_jobs, job_queue, job_data, booted, op, ticks>>

\* _mark_reminder_as_expired: the button is replaced; an edit that raises is
\* logged only.
process_expired_mark ==
    /\ handlers.expiry.pc = "mark"
    /\ \E ok \in Returns :
         LET e == handlers.expiry
             m == e.reminders[e.i].message_id
         IN  /\ faults' = count_fault(ok)
             /\ messages' = IF ok /\ m \in 1..Len(messages)
                            THEN [messages EXCEPT ![m].reply_markup = "expired"]
                            ELSE messages
             /\ handlers' = [handlers EXCEPT !.expiry.pc = "record"]
    /\ UNCHANGED <<wh, hl, now, server_offset, dbvars, next_uuid, active_jobs,
                   job_queue, job_data, booted, op, ticks>>

\* record_hydration_event(user_id, 'missed', reminder_id)
process_expired_record ==
    /\ handlers.expiry.pc = "record"
    /\ \E ok \in Returns :
         LET e == handlers.expiry
             reminder == e.reminders[e.i]
         IN  /\ faults' = count_fault(ok)
             /\ hydration_events' =
                   IF ok THEN record_hydration_event(hydration_events,
                                  reminder.user_id, "missed", reminder.reminder_id,
                                  ExpiryWriter)
                   ELSE hydration_events
             /\ changes' = IF ok THEN 1 ELSE changes
             /\ handlers' = [handlers EXCEPT !.expiry.pc = "remove"]
    /\ UNCHANGED <<wh, hl, now, server_offset, users, active_reminders,
                   user_achievements, messages, next_uuid, active_jobs, job_queue,
                   job_data, booted, op, ticks>>

\* remove_active_reminder(reminder_id), and the next reminder of the list.
process_expired_remove ==
    /\ handlers.expiry.pc = "remove"
    /\ \E ok \in Returns :
         LET e == handlers.expiry
         IN  /\ faults' = count_fault(ok)
             /\ active_reminders' =
                   IF ok THEN remove_active_reminder(active_reminders,
                                  e.reminders[e.i].reminder_id)
                   ELSE active_reminders
             /\ changes' = IF ok THEN Len(active_reminders) - Len(active_reminders')
                          ELSE changes
             /\ handlers' = [handlers EXCEPT !.expiry =
                   IF e.i < Len(e.reminders)
                   THEN [e EXCEPT !.pc = "mark", !.i = @ + 1]
                   ELSE [e EXCEPT !.pc = "idle", !.reminders = <<>>, !.i = 1]]
    /\ UNCHANGED <<wh, hl, now, server_offset, users, hydration_events,
                   user_achievements, messages, next_uuid, active_jobs, job_queue,
                   job_data, booted, op, ticks>>

\* The user taps the button of a reminder message: _handle_water_confirmation
\* reads the user and replaces the text, which takes the button away.
water_confirmation_begin ==
    /\ ~handlers.stopped
    /\ handlers.update = None
    /\ \E m \in 1..Len(messages) :
         /\ messages[m].reply_markup = "confirm"
         /\ messages' = [messages EXCEPT ![m].reply_markup = "none"]
         /\ handlers' = [handlers EXCEPT !.update =
               [handler |-> "confirm_water", user_id |-> messages[m].chat_id,
                reminder_id |-> messages[m].reminder_id, pc |-> "record",
                outstanding |-> messages[m].reminder_id \in ids_of(active_reminders),
                events_before |-> Len(hydration_events),
                tried |-> {}, code |-> "none", held |-> FALSE,
                new_achievements |-> {}]]
    /\ UNCHANGED <<wh, hl, now, server_offset, dbvars, next_uuid, active_jobs,
                   job_queue, job_data, booted, op, ticks, faults>>

\* record_hydration_event(user_id, 'confirmed', reminder_id)
water_confirmation_record ==
    /\ handlers.update # None
    /\ handlers.update.handler = "confirm_water"
    /\ handlers.update.pc = "record"
    /\ \E ok \in Returns :
         /\ faults' = count_fault(ok)
         /\ hydration_events' =
               IF ok THEN record_hydration_event(hydration_events,
                              handlers.update.user_id, "confirmed",
                              handlers.update.reminder_id, ConfirmWriter)
               ELSE hydration_events
         /\ changes' = IF ok THEN 1 ELSE changes
         /\ handlers' = [handlers EXCEPT !.update.pc = "remove"]
    /\ UNCHANGED <<wh, hl, now, server_offset, users, active_reminders,
                   user_achievements, messages, next_uuid, active_jobs, job_queue,
                   job_data, booted, op, ticks>>

\* A faulty variant of the handler's remove step: the row stays.
water_confirmation_remove_skipped ==
    /\ handlers.update # None
    /\ handlers.update.handler = "confirm_water"
    /\ handlers.update.pc = "remove"
    /\ handlers' = [handlers EXCEPT !.update.pc = "achievements"]
    /\ UNCHANGED <<wh, hl, now, server_offset, dbvars, messages, next_uuid,
                   active_jobs, job_queue, job_data, booted, op, ticks, faults>>

\* remove_active_reminder(reminder_id)
water_confirmation_remove ==
    /\ handlers.update # None
    /\ handlers.update.handler = "confirm_water"
    /\ handlers.update.pc = "remove"
    /\ \E ok \in Returns :
         /\ faults' = count_fault(ok)
         /\ active_reminders' =
               IF ok THEN remove_active_reminder(active_reminders,
                              handlers.update.reminder_id)
               ELSE active_reminders
         /\ changes' = IF ok THEN Len(active_reminders) - Len(active_reminders')
                      ELSE changes
         /\ handlers' = [handlers EXCEPT !.update.pc = "achievements"]
    /\ UNCHANGED <<wh, hl, now, server_offset, users, hydration_events,
                   user_achievements, messages, next_uuid, active_jobs, job_queue,
                   job_data, booted, op, ticks>>

\* The achievements by number of confirmations: code and threshold.
ConfirmationAchievements ==
    {<<"first_sip", 1>>, <<"getting_started", 5>>, <<"hydration_habit", 10>>,
     <<"centurion", 100>>, <<"hydration_veteran", 1000>>}

\* get_total_confirmations
get_total_confirmations(user_id) ==
    Len(SelectSeq(hydration_events,
                  LAMBDA e : e.user_id = user_id /\ e.event_type = "confirmed"))

\* The codes check_confirmation_achievements and check_level_achievements
\* try to grant: by number of confirmations, by the hour of the server's
\* clock, by the day's confirmations (all records of a run are less than a
\* day old) and by the level.  The week's rates need twenty records.
achievements_due(user_id) ==
    LET total == get_total_confirmations(user_id)
        current_hour == ((RunStartsAt \div 60 + datetime_now) % MinutesPerDay) \div 60
        mine == rows_of(hydration_events, user_id)
        level == calculate_hydration_level(event_types_newest_first(user_id), FALSE)
    IN  {a[1] : a \in {b \in ConfirmationAchievements : total >= b[2]}}
        \cup (IF current_hour < 6 THEN {"early_bird"} ELSE {})
        \cup (IF current_hour < 4 THEN {"night_owl"} ELSE {})
        \cup (IF total >= 3 THEN {"daily_dose"} ELSE {})
        \cup (IF Len(mine) >= 20 /\ 10 * total >= 9 * Len(mine)
              THEN {"hydration_hero"} ELSE {})
        \cup (IF Len(mine) >= 20 /\ total = Len(mine)
              THEN {"perfect_week"} ELSE {})
        \cup (IF level >= 5 THEN {"level_five"} ELSE {})

\* The order in which check_confirmation_achievements and then
\* check_level_achievements try their codes.
AchievementOrder ==
    <<"first_sip", "getting_started", "hydration_habit", "centurion",
      "hydration_veteran", "early_bird", "night_owl", "daily_dose",
      "hydration_hero", "perfect_week", "level_five">>

\* The codes that are due, in the order they are tried.
due_in_order(user_id) ==
    LET due == achievements_due(user_id)
    IN  SelectSeq(AchievementOrder, LAMBDA code : code \in due)

\* grant_achievement: INSERT OR IGNORE INTO user_achievements
grant_achievement(table, user_id, achievement_code) ==
    table \cup {<<user_id, achievement_code>>}

\* The first code in the checkers' order that is due and not yet tried, as
\* <<code>>; <<>> when the checkers are through.
next_code(user_id, tried) ==
    LET left == SelectSeq(due_in_order(user_id), LAMBDA code : code \notin tried)
    IN  IF left = <<>> THEN <<>> ELSE <<left[1]>>

\* grant_achievement up to its commit: INSERT OR IGNORE adds the row unless
\* the user holds the code, and the connection counts the rows it added.
\* (held notes whether the user held the code, for the properties.)  When
\* the statement raises, the except branch returns False.
grant_achievement_insert ==
    /\ handlers.update # None
    /\ handlers.update.handler = "confirm_water"
    /\ handlers.update.pc = "achievements"
    /\ next_code(handlers.update.user_id, handlers.update.tried) # <<>>
    /\ \E ok \in Returns :
         LET user_id == handlers.update.user_id
             code == next_code(user_id, handlers.update.tried)[1]
             held == <<user_id, code>> \in user_achievements
         IN  /\ faults' = count_fault(ok)
             /\ user_achievements' =
                   IF ok THEN grant_achievement(user_achievements, user_id, code)
                   ELSE user_achievements
             /\ changes' = IF ~ok THEN changes ELSE IF held THEN 0 ELSE 1
             /\ handlers' = [handlers EXCEPT !.update =
                   IF ok THEN [@ EXCEPT !.pc = "changes", !.code = code, !.held = held]
                   ELSE [@ EXCEPT !.tried = @ \cup {code}]]
    /\ UNCHANGED <<wh, hl, now, server_offset, users, active_reminders,
                   hydration_events, messages, next_uuid, active_jobs, job_queue,
                   job_data, booted, op, ticks>>

\* grant_achievement from SELECT changes() on: True when the connection's
\* count is above 0, and the checker then appends the code to
\* new_achievements.
grant_achievement_changes ==
    /\ handlers.update # None
    /\ handlers.update.handler = "confirm_water"
    /\ handlers.update.pc = "changes"
    /\ handlers' = [handlers EXCEPT !.update =
          [@ EXCEPT !.pc = "achievements",
                    !.tried = @ \cup {handlers.update.code},
                    !.new_achievements =
                        IF changes > 0 THEN @ \cup {handlers.update.code} ELSE @]]
    /\ UNCHANGED <<wh, hl, now, server_offset, dbvars, messages, next_uuid,
                   active_jobs, job_queue, job_data, booted, op, ticks, faults>>

\* The rest of the handler, once the checkers are through: the message is
\* rewritten.
water_confirmation_achievements ==
    /\ handlers.update # None
    /\ handlers.update.handler = "confirm_water"
    /\ handlers.update.pc = "achievements"
    /\ next_code(handlers.update.user_id, handlers.update.tried) = <<>>
    /\ handlers' = [handlers EXCEPT !.update = None]
    /\ UNCHANGED <<wh, hl, now, server_offset, dbvars, messages, next_uuid,
                   active_jobs, job_queue, job_data, booted, op, ticks, faults>>

\* The first minute of the run passes.
first_minute ==
    /\ now = 0
    /\ Advance

NextOutcome ==
    \/ start_all_user_reminders
    \/ reset_cancel(ResetUser)
    \/ reset_delete
    \/ \E j \in JobIds : check_and_send_reminder(j)
    \/ \E j \in JobIds : resume(j)
    \/ process_expired_select
    \/ process_expired_mark
    \/ process_expired_record
    \/ process_expired_remove
    \/ water_confirmation_begin
    \/ water_confirmation_record
    \/ water_confirmation_remove
    \/ grant_achievement_insert
    \/ grant_achievement_changes
    \/ water_confirmation_achievements
    \/ first_minute

SpecOutcome == InitOutcome /\ [][NextOutcome]_vars

(***************************************************************************)
(* Properties of the outcome records (under SpecOutcome).                  *)
(***************************************************************************)
IsPrefix(a, b) == Len(a) <= Len(b) /\ SubSeq(b, 1, Len(a)) = a

\* The step in which _handle_reset_confirm's delete_user_completely returns.
ErasureStep ==
    /\ handlers.update # None
    /\ handlers.update.handler = "reset_confirm"
    /\ handlers'.update = None

\* The writers of the records in the table.
writers == {hydration_events[k].writer : k \in 1..Len(hydration_events)}

\* C23: no step of a tick, of its sweep, of the background expiry job or of
\* the confirmation handler changes or deletes an OutcomeRecord: but for the
\* step of delete_user_completely, the table after a step is the table
\* before it with rows added at its end.
C23_AppendOnly ==
    [][ErasureStep \/ IsPrefix(hydration_events, hydration_events')]_vars

\* A tick's sweep, the background job and the confirmation handler have all
\* written to a table that held records before.
C23_Witness ==
    /\ ExpiryWriter \in writers
    /\ ConfirmWriter \in writers
    /\ writers \cap JobIds # {}

\* The reminders whose acknowledgement is complete: an acknowledged record
\* is in the table and the handler that wrote it is past its DELETE.
acknowledged ==
    {hydration_events[k].reminder_id :
        k \in {n \in 1..Len(hydration_events) :
                 /\ hydration_events[n].event_type = "confirmed"
                 /\ ~(/\ handlers.update # None
                      /\ handlers.update.handler = "confirm_water"
                      /\ handlers.update.pc = "remove"
                      /\ handlers.update.reminder_id
                             = hydration_events[n].reminder_id)}}

\* The handler takes its step from pc, for a reminder that was outstanding
\* when its button was tapped.
ConfirmStepFrom(pc) ==
    /\ handlers.update # None
    /\ handlers.update.handler = "confirm_water"
    /\ handlers.update.pc = pc
    /\ handlers.update.outstanding
    /\ handlers'.update # handlers.update

C26_ErasureComplete ==
    [][(ErasureStep /\ users'[handlers.update.user_id] = None) =>
          LET u == handlers.update.user_id
          IN  /\ rows_of(active_reminders', u) = <<>>
              /\ rows_of(hydration_events', u) = <<>>
              /\ {a \in user_achievements' : a[1] = u} = {}]_vars

\* C27: for every reminder id the table holds at most one OutcomeRecord.
C27_OneOutcomePerReminder ==
    \A a, b \in 1..Len(hydration_events) :
        hydration_events[a].reminder_id = hydration_events[b].reminder_id => a = b

(***************************************************************************)
(* Further properties of calculate_hydration_level (under SpecLevel).      *)
(***************************************************************************)
\* The level the comments on the ladder's branches give for k confirmations
\* out of 6: "5-6 out of 6", "4+", "3+", "2+", "1+", "0 out of 6".
CommentLevel(k) == IF k >= 5 THEN 5 ELSE k

\* C38: for a full window of six outcomes with k confirmed the level is the
\* one the comments on the branches give: 5 for k in {5, 6}, otherwise k.
C38_CommentLevels ==
    (CallRated /\ Len(hl.newest_first) >= 6) =>
        hl.result = CommentLevel(CallConfirmed(6))

(***************************************************************************)
(* A further property of the registry (under SpecRegistry).                *)
(***************************************************************************)
\* The jobs in the job queue that carry the user's job name.
jobs_named(user_id) == get_jobs_by_name(Registry, job_name(user_id))

\* C40: whatever calls were made on the registry, a user id is in
\* active_jobs iff exactly one job named reminders_user_<id> is in the job
\* queue, and the job queue holds no reminder job of an unregistered user.
C40_RegistryMatchesQueue ==
    \A u \in UserIds :
        /\ u \in DOMAIN active_jobs <=> Cardinality(jobs_named(u)) = 1
        /\ u \notin DOMAIN active_jobs => jobs_named(u) = {}
        /\ u \in DOMAIN active_jobs => active_jobs[u] = job_name(u)

\* Every user is registered with one job, and jobs created earlier in the
\* run have been removed from the queue.
C40_Witness ==
    /\ DOMAIN active_jobs = UserIds
    /\ \A u \in UserIds : Cardinality(jobs_named(u)) = 1
    /\ Len(job_data) > Cardinality(job_queue)
    /\ op.called
    /\ op.name = "start_reminders_for_user"

(***************************************************************************)
(* Further properties of the tick (under SpecPair).                        *)
(***************************************************************************)
\* The kinds of the user's records in a table, in the order written.
kinds_written(events, user_id) ==
    [k \in 1..Len(rows_of(events, user_id)) |->
        rows_of(events, user_id)[k].event_type]

C31_MissedOnlyAfterExpiry ==
    [][\A j \in JobIds :
         (/\ CleanStepFrom(j, "record")
          /\ Len(hydration_events') > Len(hydration_events))
             => now >= ticks[j].reminders[ticks[j].i].created_at + ReminderTTL]_vars

\* C35: /start for a user who already has a profile leaves the stored
\* preferences unchanged.  In the setup specification every preference
\* update edits the setup message, and /start does not: a step that leaves
\* the setup message alone and keeps the user's row in place keeps the row's
\* waking window, interval, timezone and active flag.
C35_StartKeepsPreferences ==
    [][(/\ users[ResetUser] # None
        /\ users'[ResetUser] # None
        /\ messages' = messages)
           => users'[ResetUser] = users[ResetUser]]_vars

\* C33: every OutcomeRecord written refers to a reminder that is an
\* outstanding ActiveReminder of the same user at the moment of writing: a
\* step that appends a record appends it for a reminder id found among the
\* user's ActiveReminder rows of the state it is taken in.
C33_RecordsOnlyForOutstanding ==
    [][Len(hydration_events') > Len(hydration_events) =>
          hydration_events'[Len(hydration_events')].reminder_id \in
              ids_of(rows_of(active_reminders,
                             hydration_events'[Len(hydration_events')].user_id))]_vars

\* C32: after a reset (cancel_user_reminders, then delete_user_completely)
\* and once every run that was in flight has finished, the user has no
\* ActiveReminder and no OutcomeRecord; and while the user is deleted no
\* reminder message is sent to them.
C32_NothingAfterReset ==
    /\ []((/\ users[ResetUser] = None
           /\ \A j \in JobIds : ticks[j].pc = "idle")
             => /\ rows_of(active_reminders, ResetUser) = <<>>
                /\ rows_of(hydration_events, ResetUser) = <<>>)
    /\ [][users[ResetUser] = None =>
             SelectSeq(messages', LAMBDA m : m.chat_id = ResetUser)
                 = SelectSeq(messages, LAMBDA m : m.chat_id = ResetUser)]_vars

(***************************************************************************)
(* calculate_hydration_level's query on its own: a table of OutcomeRecords *)
(* is drawn and the level of one user is computed from it.                 *)
(***************************************************************************)
\* A table of n rows in the order they were written.  Row `foreign' (if any)
\* is another user's; rows `tied' and `tied' + 1 (if any) were written in
\* the same second, every other row a second after the row before it.
drawn_table(kinds, foreign, tied) ==
    [k \in 1..Len(kinds) |->
        [user_id |-> IF k = foreign THEN 2 ELSE 1,
         event_type |-> kinds[k],
         reminder_id |-> k,
         created_at |-> IF tied > 0 /\ k > tied THEN k - 1 ELSE k,
         writer |-> IF kinds[k] = "confirmed" THEN ConfirmWriter ELSE ExpiryWriter]]

InitQuery ==
    /\ wh = NoCall
    /\ hl = [called |-> FALSE, user_id |-> 1]
    /\ now = MaxTime
    /\ server_offset = 0
    /\ users = [u \in UserIds |-> default_row(u)]
    /\ active_reminders = <<>>
    /\ \E n \in 0..(MaxHistory + 1) :
         \E kinds \in [1..n -> EventTypes], foreign \in 0..n, tied \in 0..n :
            /\ tied < n
            /\ hydration_events = drawn_table(kinds, foreign, tied)
    /\ user_achievements = {}
    /\ changes = 0
    /\ messages = <<>>
    /\ next_uuid = 0
    /\ active_jobs = <<>>
    /\ job_queue = {}
    /\ job_data = <<>>
    /\ booted = FALSE
    /\ ticks = [j \in JobIds |-> IdleTick]
    /\ faults = 0
    /\ handlers = NoHandler
    /\ op = NoCall

\* await self.database.calculate_hydration_level(user_id), on the table.
query_hydration_level ==
    /\ ~hl.called
    /\ hl' = [called |-> TRUE, user_id |-> hl.user_id,
              result |-> calculate_hydration_level(
                             event_types_newest_first(hl.user_id), FALSE)]
    /\ UNCHANGED <<wh, now, server_offset, dbvars, messages, next_uuid, regvars,
                   ticks, faults>>

NextQuery == query_hydration_level

SpecQuery == InitQuery /\ [][NextQuery]_vars

\* The kinds of the user's n most recently written records, newest first.
last_written(user_id, n) ==
    limit(Reverse(kinds_written(hydration_events, user_id)), n)

\* C37: the level depends only on the kinds of the user's 6 most recently
\* written OutcomeRecords: it is the level of those six (or fewer) kinds,
\* whatever older records and other users' records the table holds.
C37_LastSixWritten ==
    hl.called =>
        hl.result = calculate_hydration_level(last_written(hl.user_id, LevelWindow), FALSE)

\* C39: grant_achievement returns True exactly when the user did not hold
\* the achievement before the call, whatever other statements run on the
\* connection between its INSERT and its SELECT changes(): the code joins
\* the checker's new_achievements exactly when it was not held.
C39_GrantReturnsNew ==
    [][(/\ handlers.update # None
        /\ handlers.update.handler = "confirm_water"
        /\ handlers.update.pc = "changes"
        /\ handlers'.update # handlers.update)
           => (handlers.update.code \in handlers'.update.new_achievements
                  <=> ~handlers.update.held)]_vars

(***************************************************************************)
(* The scheduler with one user as it runs on: the clock advances, a job    *)
(* that is due fires, and a run in flight is resumed (the event loop       *)
(* leaves no ready task waiting for ever).                                 *)
(***************************************************************************)
SpecLive ==
    /\ Init
    /\ [][Next]_vars
    /\ WF_vars(Advance)
    /\ \A j \in JobIds : WF_vars(check_and_send_reminder(j)) /\ WF_vars(resume(j))

\* Reminder r has been delivered: its message is in the chat.
delivered(r) == \E m \in 1..Len(messages) : messages[m].reminder_id = r

\* Reminder r has an OutcomeRecord.
recorded(r) ==
    \E k \in 1..Len(hydration_events) : hydration_events[k].reminder_id = r

====
